---- MODULE Spec2Model ----
(***************************************************************************)
(* Model of the cluster resource aggregation core of swissarmycli:         *)
(*   ShowNodeUsage   (internal/k8s/node_usage.go)                          *)
(*   ShowPodDensity  (pod density view, getPodOwnerFast)                   *)
(* and of further operations, each under a specification of its own:      *)
(*   EstimateClusterCost (internal/k8s/cost-estimation.go), SpecCost       *)
(*   ListNLBs            (package aws), SpecNLB                            *)
(*   the selection prompt of RevealSecret, CheckTLSSecret and              *)
(*   ConnectToEKSCluster, SpecPrompt                                       *)
(*   Monitor and createProgressBar (cmd/swissarmycli/main.go),             *)
(*   SpecMonitor and SpecBar                                               *)
(*                                                                         *)
(* Quantities.  The code converts resource quantities to float64:          *)
(* cpu.MilliValue()/1000 (cores) and memory.Value()/2^30 (GiB).  The model *)
(* keeps CPU in millicores and memory in MiB as integers; every quantity   *)
(* the model draws is a whole number of cores or GiB, so the float sums of *)
(* the code are exact and equal the integer sums of the model.             *)
(* A float64 division by a zero capacity does not trap in Go: it yields    *)
(* NaN (0/0) or +Inf (x/0, x > 0), which fmt prints as "NaN" and "+Inf".   *)
(***************************************************************************)
EXTENDS Integers, Sequences, FiniteSets, TLC

VARIABLES
    op,            \* the operation of the run: "none", "usage", "density"
    pc,            \* position of the calling goroutine
    metricsClient, \* TRUE iff common.GetMetricsClient returned a client
    wg,            \* sync.WaitGroup counter
    task,          \* per fetch goroutine: "idle", "running", "done"
    nodes, nodeErr,             \* result / error slot of the node list call
    pods, podErr,               \* result / error slot of the pod list call
    replicaSets, rsErr,         \* result / error slot of the ReplicaSet list call
    nodeMetrics, metricsErr,    \* result / error slot of the metrics list call
    writers,       \* history: slot -> set of goroutines that wrote it
    earlyRead,     \* history: a slot was read while a launched task was running
    rsOwnerCache,  \* map "ns/rsName" -> Deployment name
    nodeStats,     \* map node name -> node record
    nodeMap,       \* map node name -> (map owner key -> OwnerInfo)
    podIdx,        \* index of the next pod of pods.Items to process
    nodeInfos,     \* density: the []NodeInfo slice built before printing
    rows,          \* the rows written to the tabwriter
    result,        \* the value the operation returned
    qPod, qRS, qCache, qOut,  \* owner resolution alone: pod, ReplicaSet listing, index, result
    qOut2,         \* owner resolution alone: result of a second call
    costPc,        \* EstimateClusterCost: position of the caller
    costInfo,      \* the *ClusterCostInfo the operation fills in
    costNodes,     \* getEC2InstancesFromNodes: its node listing while in scope
    pvs, scs,      \* getEBSVolumesFromPVs: its listings while in scope
    services,      \* getLoadBalancersFromServices: its listing while in scope
    pricing,       \* calculateCosts: the pricing table it loaded
    costIdx,       \* calculateCosts: index of the next line item of the category
    warnings,      \* the warning lines printed so far
    costResult,    \* the value EstimateClusterCost returned, and what it printed
    nlbPc,         \* ListNLBs: position of the caller
    nlbsInfo,      \* ListNLBs: the slice the page callback appends to
    nlbPages,      \* ListNLBs: number of pages handed to the callback
    nlbResult,     \* the pair ListNLBs returned
    prPc,          \* selection prompt: position of the command
    prCmd,         \* the command that prompts
    found,         \* the candidates the search found (foundSecrets, matchingClusters)
    stdin,         \* what os.Stdin still holds: chunks, each with or without its newline
    prompts,       \* number of "Enter number: " lines printed, counted up to MaxPrompts
    prResult,      \* what the command processed and returned
    monPc,         \* ASG monitor: position of the event loop goroutine
    asgData,       \* the ASG data the monitor holds
    lastGood,      \* history: the data of the last fetch that succeeded
    events,        \* the events waiting for the event loop: keys and queued ticks
    fetched,       \* the pair fetchASGData returned to the refresh being handled
    inFlight,      \* history: refreshes begun and not yet finished
    errorLogged,   \* the log view shows a refresh error
    dashboard,     \* what the dashboard view shows
    monResult,     \* how Monitor ended
    barPc,         \* createProgressBar alone: position of the caller
    barArgs,       \* its arguments
    barOut         \* its result

vars == <<op, pc, metricsClient, wg, task, nodes, nodeErr, pods, podErr,
          replicaSets, rsErr, nodeMetrics, metricsErr, writers, earlyRead,
          rsOwnerCache, nodeStats, nodeMap, podIdx, nodeInfos, rows, result,
          qPod, qRS, qCache, qOut, qOut2,
          costPc, costInfo, costNodes, pvs, scs, services, pricing, costIdx,
          warnings, costResult, nlbPc, nlbsInfo, nlbPages, nlbResult,
          prPc, prCmd, found, stdin, prompts, prResult,
          monPc, asgData, lastGood, events, fetched, inFlight, errorLogged,
          dashboard, monResult, barPc, barArgs, barOut>>

runVars == <<op, pc, metricsClient, wg, task, nodes, nodeErr, pods, podErr,
             replicaSets, rsErr, nodeMetrics, metricsErr, writers, earlyRead,
             rsOwnerCache, nodeStats, nodeMap, podIdx, nodeInfos, rows, result>>

ownerVars == <<qPod, qRS, qCache, qOut, qOut2>>

costVars == <<costPc, costInfo, costNodes, pvs, scs, services, pricing, costIdx,
              warnings, costResult>>

nlbVars == <<nlbPc, nlbsInfo, nlbPages, nlbResult>>

promptVars == <<prPc, prCmd, found, stdin, prompts, prResult>>

monitorVars == <<monPc, asgData, lastGood, events, fetched, inFlight, errorLogged,
                 dashboard, monResult>>

barVars == <<barPc, barArgs, barOut>>

-----------------------------------------------------------------------------
(* Bounds of the model *)

MaxPods == 2
MaxOwnerRefs == 2

-----------------------------------------------------------------------------
(* Generic helpers *)

Range(s) == {s[i] : i \in 1..Len(s)}

SeqsUpTo(S, n) == UNION {[1..k -> S] : k \in 0..n}

Perms(S) == {s \in [1..Cardinality(S) -> S] : Range(s) = S}

EmptyMap == [k \in {} |-> 0]

MapPut(m, k, v) == [x \in DOMAIN m \cup {k} |-> IF x = k THEN v ELSE m[x]]

RECURSIVE SumSeq(_)
SumSeq(s) == IF s = <<>> THEN 0 ELSE Head(s) + SumSeq(Tail(s))

-----------------------------------------------------------------------------
(* Values the cluster API can return *)

NodeNames == <<"n1", "n2">>
PodNames == <<"p1", "p2", "p3", "p4">>

\* Capacity of a node: CPU in millicores, memory in MiB.
NodeCaps == {[cpu |-> 4000, mem |-> 8192], [cpu |-> 0, mem |-> 0]}

\* A node listing: node i of the listing is named NodeNames[i] (names are
\* unique in a cluster), with any capacity of NodeCaps.
NodeListings ==
    UNION {{[i \in 1..k |-> [name |-> NodeNames[i], cap |-> c[i]]] :
               c \in [1..k -> NodeCaps]} : k \in 0..Len(NodeNames)}

\* Containers: Resources.Requests / Resources.Limits are maps from the
\* resource name to a quantity; a resource may be absent from either.
NoRes == [r \in {} |-> 0]
CFull == [requests |-> [cpu |-> 1000, memory |-> 1024],
          limits |-> [cpu |-> 2000, memory |-> 2048]]
CCpuReq == [requests |-> [cpu |-> 2000], limits |-> NoRes]
CMemOnly == [requests |-> [memory |-> 1024], limits |-> [memory |-> 1024]]
CCpuLim == [requests |-> [cpu |-> 1000], limits |-> [cpu |-> 1000]]

Ref(kind, name) == [kind |-> kind, name |-> name]

\* The shapes a pod of the listing can have (the name is given by position).
PodShapes ==
    { [namespace |-> "a", phase |-> "Running", nodeName |-> "n1",
       ownerRefs |-> <<Ref("ReplicaSet", "rs1")>>, containers |-> <<CFull>>],
      [namespace |-> "b", phase |-> "Running", nodeName |-> "n1",
       ownerRefs |-> <<Ref("ReplicaSet", "rs1")>>,
       containers |-> <<CMemOnly, CCpuLim>>],
      [namespace |-> "a", phase |-> "Running", nodeName |-> "n2",
       ownerRefs |-> <<Ref("DaemonSet", "ds1"), Ref("ReplicaSet", "rs1")>>,
       containers |-> <<CFull>>],
      [namespace |-> "a", phase |-> "Pending", nodeName |-> "n1",
       ownerRefs |-> <<>>, containers |-> <<CCpuReq>>],
      [namespace |-> "a", phase |-> "Running", nodeName |-> "",
       ownerRefs |-> <<Ref("ReplicaSet", "rs1")>>, containers |-> <<CFull>>],
      [namespace |-> "a", phase |-> "Running", nodeName |-> "n1",
       ownerRefs |-> <<>>, containers |-> <<>>],
      [namespace |-> "a", phase |-> "Running", nodeName |-> "n2",
       ownerRefs |-> <<Ref("ReplicaSet", "rs1")>>, containers |-> <<CCpuReq>>] }

MkPod(shape, i) ==
    [name |-> PodNames[i], namespace |-> shape.namespace, phase |-> shape.phase,
     nodeName |-> shape.nodeName, ownerRefs |-> shape.ownerRefs,
     containers |-> shape.containers]

PodListings ==
    UNION {{[i \in 1..k |-> MkPod(sh[i], i)] : sh \in [1..k -> PodShapes]} :
              k \in 0..MaxPods}

RS(ns, name, refs) == [namespace |-> ns, name |-> name, ownerRefs |-> refs]

RSListings ==
    { <<>>,
      <<RS("a", "rs1", <<Ref("Other", "x"), Ref("Deployment", "d1")>>),
        RS("b", "rs1", <<>>)>>,
      <<RS("a", "rs1", <<Ref("Deployment", "d1")>>),
        RS("b", "rs1", <<Ref("Deployment", "d2")>>)>> }

Metric(name, cpu, mem) == [name |-> name, cpu |-> cpu, mem |-> mem]

MetricsListings ==
    { <<Metric("n1", 2000, 4096)>>,
      <<Metric("n1", 0, 0), Metric("n2", 1000, 0)>>,
      <<Metric("n9", 1000, 1024), Metric("n1", 1000, 2048)>> }

\* The error a failing list call of a kind returns.
ErrOf(kind) == kind \o " is forbidden"

\* A list slot: a pointer to a list (nil before the call returned).
NilList == [nil |-> TRUE, items |-> <<>>]
ListOf(s) == [nil |-> FALSE, items |-> s]

\* An error value: nil, or an error.
NoErr == [nil |-> TRUE, msg |-> "", wraps |-> ""]
BaseErr(e) == [nil |-> FALSE, msg |-> "", wraps |-> e]

-----------------------------------------------------------------------------
(* Owner resolution *)

\* Variant: the key leaves the namespace out.
RsKeyNameOnly(ns, name) == name

\* The index key of a ReplicaSet: rs.Namespace + "/" + rs.Name.
RsKey(ns, name) == ns \o "/" \o name

\* rsOwnerCache after the loop over replicaSets.Items: every owner reference
\* of kind Deployment stores its name under the ReplicaSet's key (a later
\* store overwrites an earlier one).
RECURSIVE CacheRefs(_, _, _)
CacheRefs(cache, rs, refs) ==
    IF refs = <<>> THEN cache
    ELSE CacheRefs(IF Head(refs).kind = "Deployment"
                     THEN MapPut(cache, RsKey(rs.namespace, rs.name), Head(refs).name)
                     ELSE cache,
                   rs, Tail(refs))

\* Variant: the loop stops after the first ReplicaSet of the listing.
BuildCacheFirstItem(cache, items) ==
    IF items = <<>> THEN cache
    ELSE CacheRefs(cache, Head(items), Head(items).ownerRefs)

RECURSIVE BuildCache(_, _)
BuildCache(cache, items) ==
    IF items = <<>> THEN cache
    ELSE BuildCache(CacheRefs(cache, Head(items), Head(items).ownerRefs), Tail(items))

\* Variant: the loop runs on, and the last owner reference decides.
getPodOwnerLast(pod, cache) ==
    IF pod.ownerRefs = <<>> THEN <<pod.name, "Pod">>
    ELSE LET owner == pod.ownerRefs[Len(pod.ownerRefs)] IN
         IF owner.kind = "ReplicaSet"
           THEN IF RsKey(pod.namespace, owner.name) \in DOMAIN cache
                  THEN <<cache[RsKey(pod.namespace, owner.name)], "Deployment">>
                  ELSE <<owner.name, "ReplicaSet">>
           ELSE <<owner.name, owner.kind>>

\* getPodOwnerFast: every branch of the switch returns, so the range loop
\* never reaches a second owner reference.
getPodOwnerFast(pod, cache) ==
    IF pod.ownerRefs = <<>> THEN <<pod.name, "Pod">>
    ELSE LET owner == Head(pod.ownerRefs) IN
         IF owner.kind = "ReplicaSet"
           THEN IF RsKey(pod.namespace, owner.name) \in DOMAIN cache
                  THEN <<cache[RsKey(pod.namespace, owner.name)], "Deployment">>
                  ELSE <<owner.name, "ReplicaSet">>
           ELSE <<owner.name, owner.kind>>

\* key := fmt.Sprintf("%s/%s/%s", pod.Namespace, ownerType, owner)
\* Variant: a key without the namespace.
OwnerKeyNoNamespace(ns, ownerType, owner) == ownerType \o "/" \o owner

OwnerKey(ns, ownerType, owner) == ns \o "/" \o ownerType \o "/" \o owner

-----------------------------------------------------------------------------
(* Aggregation helpers *)

\* Variant: the phase is not looked at.
QualifiesAnyPhase(pod) == pod.nodeName # ""

\* The pod filter of both aggregation loops.
Qualifies(pod) == pod.phase = "Running" /\ pod.nodeName # ""

\* What one container adds: the value of the resource when the map has it.
Qty(m, r) == IF r \in DOMAIN m THEN m[r] ELSE 0

RECURSIVE ContainerSum(_, _, _)
ContainerSum(containers, field, r) ==
    IF containers = <<>> THEN 0
    ELSE Qty(Head(containers)[field], r) + ContainerSum(Tail(containers), field, r)

\* x*100/capacity in float64, as printed with %.0f.
PctNum(n) == [cls |-> "num", n |-> n]
PctNaN == [cls |-> "NaN", n |-> 0]
PctInf == [cls |-> "+Inf", n |-> 0]

\* %.0f rounds to the nearest integer, a tie to the even one.
RoundDiv(a, b) ==
    LET q == a \div b
        r == a % b
    IN IF 2 * r < b THEN q
       ELSE IF 2 * r > b THEN q + 1
       ELSE IF q % 2 = 0 THEN q ELSE q + 1

Percent(x, capacity) ==
    IF capacity # 0 THEN PctNum(RoundDiv(100 * x, capacity))
    ELSE IF x = 0 THEN PctNaN ELSE PctInf

\* The usage cell: "N/A" unless the usage field is > 0.
NA == [na |-> TRUE, val |-> 0, pct |-> PctNum(0)]
UsageCell(usage, capacity) ==
    IF usage > 0 THEN [na |-> FALSE, val |-> usage, pct |-> Percent(usage, capacity)]
    ELSE NA

-----------------------------------------------------------------------------
(* State *)

Tasks == {"nodes", "pods", "rs", "metrics"}

Slots == {"nodes", "nodeErr", "pods", "podErr", "replicaSets", "rsErr",
          "nodeMetrics", "metricsErr"}

\* The goroutines the operation launches unconditionally.
Required(o) == IF o = "density" THEN {"nodes", "pods", "rs"} ELSE {"nodes", "pods"}

InitRun ==
    /\ op = "none"
    /\ pc = "idle"
    /\ metricsClient = FALSE
    /\ wg = 0
    /\ task = [t \in Tasks |-> "idle"]
    /\ nodes = NilList /\ nodeErr = NoErr
    /\ pods = NilList /\ podErr = NoErr
    /\ replicaSets = NilList /\ rsErr = NoErr
    /\ nodeMetrics = NilList /\ metricsErr = NoErr
    /\ writers = [s \in Slots |-> {}]
    /\ earlyRead = FALSE
    /\ rsOwnerCache = EmptyMap
    /\ nodeStats = EmptyMap
    /\ nodeMap = EmptyMap
    /\ podIdx = 0
    /\ nodeInfos = <<>>
    /\ rows = <<>>
    /\ result = [state |-> "running", err |-> NoErr]

NoQuery == [name |-> "", namespace |-> "", ownerRefs |-> <<>>]

InitOwnerIdle ==
    /\ qPod = NoQuery
    /\ qRS = <<>>
    /\ qCache = EmptyMap
    /\ qOut = <<>>
    /\ qOut2 = <<>>

\* costInfo := &ClusterCostInfo{}: the zero value of the struct.
NewCostInfo ==
    [Region |-> "", EC2Instances |-> <<>>, EBSVolumes |-> <<>>,
     LoadBalancers |-> <<>>, TotalCost |-> 0]

NoPricing == [nil |-> TRUE, EC2Pricing |-> EmptyMap, EBSPricing |-> EmptyMap,
              LBPricing |-> EmptyMap]

InitCostIdle ==
    /\ costPc = "idle"
    /\ costInfo = NewCostInfo
    /\ costNodes = NilList
    /\ pvs = NilList /\ scs = NilList
    /\ services = NilList
    /\ pricing = NoPricing
    /\ costIdx = 0
    /\ warnings = <<>>
    /\ costResult = [state |-> "running", err |-> NoErr, printed |-> FALSE]

\* var nlbsInfo []NLBInfo: a nil slice.
NilSlice == [nil |-> TRUE, items |-> <<>>]

InitNLBIdle ==
    /\ nlbPc = "idle"
    /\ nlbsInfo = NilSlice
    /\ nlbPages = 0
    /\ nlbResult = [state |-> "running", list |-> NilSlice, err |-> NoErr]

\* No command is prompting.
InitPromptIdle ==
    /\ prPc = "idle"
    /\ prCmd = ""
    /\ found = <<>>
    /\ stdin = <<>>
    /\ prompts = 0
    /\ prResult = [state |-> "running", processed |-> "", err |-> NoErr]

\* ASGData{}: what fetchASGData returns beside an error.
ZeroASG == [Name |-> "", MinSize |-> 0, MaxSize |-> 0, DesiredSize |-> 0,
            CPUUtilization |-> 0, NetworkUsage |-> 0]

NotDrawn == [drawn |-> FALSE, data |-> ZeroASG, capacityBar |-> <<>>,
             cpuBar |-> <<>>, networkBar |-> <<>>]

MonitorReturned(state, e) == [state |-> state, err |-> e]

InitMonitorIdle ==
    /\ monPc = "idle"
    /\ asgData = ZeroASG
    /\ lastGood = ZeroASG
    /\ events = <<>>
    /\ fetched = [data |-> ZeroASG, err |-> NoErr]
    /\ inFlight = 0
    /\ errorLogged = FALSE
    /\ dashboard = NotDrawn
    /\ monResult = MonitorReturned("running", NoErr)

NoBarArgs == [current |-> 0, max |-> 0, width |-> 0]

InitBarIdle ==
    /\ barPc = "idle"
    /\ barArgs = NoBarArgs
    /\ barOut = [panic |-> FALSE, bar |-> <<>>]

Init ==
    /\ InitRun /\ InitOwnerIdle /\ InitCostIdle /\ InitNLBIdle
    /\ InitPromptIdle /\ InitMonitorIdle /\ InitBarIdle

WrapErr(msg, e) == [nil |-> FALSE, msg |-> msg, wraps |-> e.wraps]
Returned(e) == [state |-> "returned", err |-> e]
Panicked == [state |-> "panic", err |-> NoErr]

-----------------------------------------------------------------------------
(* Fetch phase *)

\* common.GetKubernetesClient / common.GetMetricsClient at the head of the
\* operation: a clientset error returns at once, a metrics client error only
\* prints a warning and leaves metricsClient nil.
Start ==
    /\ pc = "idle"
    /\ \E o \in {"usage", "density"}, cerr \in {NoErr, BaseErr(ErrOf("kubeconfig"))},
          mc \in BOOLEAN :
         /\ op' = o
         /\ IF ~cerr.nil
              THEN /\ pc' = "done"
                   /\ result' = Returned(WrapErr("failed to create Kubernetes client", cerr))
                   /\ metricsClient' = FALSE
              ELSE /\ pc' = "launch"
                   /\ result' = result
                   /\ metricsClient' = mc
    /\ UNCHANGED <<wg, task, nodes, nodeErr, pods, podErr, replicaSets, rsErr,
                   nodeMetrics, metricsErr, writers, earlyRead, rsOwnerCache,
                   nodeStats, nodeMap, podIdx, nodeInfos, rows>>
    /\ UNCHANGED <<ownerVars, costVars, nlbVars, promptVars, monitorVars, barVars>>

\* wg.Add(2) (usage) or wg.Add(3) (density) and the go statements that follow.
LaunchRequired ==
    /\ pc = "launch"
    /\ wg' = wg + Cardinality(Required(op))
    /\ task' = [t \in Tasks |-> IF t \in Required(op) THEN "running" ELSE task[t]]
    /\ pc' = "launchMetrics"
    /\ UNCHANGED <<op, metricsClient, nodes, nodeErr, pods, podErr, replicaSets, rsErr,
                   nodeMetrics, metricsErr, writers, earlyRead, rsOwnerCache,
                   nodeStats, nodeMap, podIdx, nodeInfos, rows, result>>
    /\ UNCHANGED <<ownerVars, costVars, nlbVars, promptVars, monitorVars, barVars>>

\* if metricsClient != nil { wg.Add(1); go func() {...}() }
\* Variant: the metrics goroutine is started without being registered.
LaunchMetricsUnregistered ==
    /\ pc = "launchMetrics"
    /\ IF metricsClient
         THEN /\ wg' = wg
              /\ task' = [task EXCEPT !["metrics"] = "running"]
         ELSE UNCHANGED <<wg, task>>
    /\ pc' = "wait"
    /\ UNCHANGED <<op, metricsClient, nodes, nodeErr, pods, podErr, replicaSets, rsErr,
                   nodeMetrics, metricsErr, writers, earlyRead, rsOwnerCache,
                   nodeStats, nodeMap, podIdx, nodeInfos, rows, result>>
    /\ UNCHANGED <<ownerVars, costVars, nlbVars, promptVars, monitorVars, barVars>>

LaunchMetrics ==
    /\ pc = "launchMetrics"
    /\ IF metricsClient
         THEN /\ wg' = wg + 1
              /\ task' = [task EXCEPT !["metrics"] = "running"]
         ELSE UNCHANGED <<wg, task>>
    /\ pc' = "wait"
    /\ UNCHANGED <<op, metricsClient, nodes, nodeErr, pods, podErr, replicaSets, rsErr,
                   nodeMetrics, metricsErr, writers, earlyRead, rsOwnerCache,
                   nodeStats, nodeMap, podIdx, nodeInfos, rows, result>>
    /\ UNCHANGED <<ownerVars, costVars, nlbVars, promptVars, monitorVars, barVars>>

\* What a list call returns: a list and a nil error, or an error with an
\* empty list.
CallResults(kind, listings) ==
    {[list |-> ListOf(l), err |-> NoErr] : l \in listings}
      \cup {[list |-> ListOf(<<>>), err |-> BaseErr(ErrOf(kind))]}

\* The metrics call may also hand back a nil list with its error.
MetricsCallResults ==
    CallResults("nodemetrics", MetricsListings)
      \cup {[list |-> NilList, err |-> BaseErr(ErrOf("nodemetrics"))]}

Wrote(t, s1, s2) ==
    [s \in Slots |-> IF s \in {s1, s2} THEN writers[s] \cup {t} ELSE writers[s]]

\* go func() { defer wg.Done(); nodes, nodeErr = ...Nodes().List(...) }()
NodesTask ==
    /\ task["nodes"] = "running"
    /\ \E r \in CallResults("nodes", NodeListings) :
         /\ nodes' = r.list
         /\ nodeErr' = r.err
    /\ writers' = Wrote("nodes", "nodes", "nodeErr")
    /\ wg' = wg - 1
    /\ task' = [task EXCEPT !["nodes"] = "done"]
    /\ UNCHANGED <<op, pc, metricsClient, pods, podErr, replicaSets, rsErr,
                   nodeMetrics, metricsErr, earlyRead, rsOwnerCache,
                   nodeStats, nodeMap, podIdx, nodeInfos, rows, result>>
    /\ UNCHANGED <<ownerVars, costVars, nlbVars, promptVars, monitorVars, barVars>>

\* go func() { defer wg.Done(); pods, podErr = ...Pods("").List(...) }()
PodsTask ==
    /\ task["pods"] = "running"
    /\ \E r \in CallResults("pods", PodListings) :
         /\ pods' = r.list
         /\ podErr' = r.err
    /\ writers' = Wrote("pods", "pods", "podErr")
    /\ wg' = wg - 1
    /\ task' = [task EXCEPT !["pods"] = "done"]
    /\ UNCHANGED <<op, pc, metricsClient, nodes, nodeErr, replicaSets, rsErr,
                   nodeMetrics, metricsErr, earlyRead, rsOwnerCache,
                   nodeStats, nodeMap, podIdx, nodeInfos, rows, result>>
    /\ UNCHANGED <<ownerVars, costVars, nlbVars, promptVars, monitorVars, barVars>>

\* go func() { defer wg.Done(); replicaSets, rsErr = ...ReplicaSets("").List(...) }()
ReplicaSetsTask ==
    /\ task["rs"] = "running"
    /\ \E r \in CallResults("replicasets", RSListings) :
         /\ replicaSets' = r.list
         /\ rsErr' = r.err
    /\ writers' = Wrote("rs", "replicaSets", "rsErr")
    /\ wg' = wg - 1
    /\ task' = [task EXCEPT !["rs"] = "done"]
    /\ UNCHANGED <<op, pc, metricsClient, nodes, nodeErr, pods, podErr,
                   nodeMetrics, metricsErr, earlyRead, rsOwnerCache,
                   nodeStats, nodeMap, podIdx, nodeInfos, rows, result>>
    /\ UNCHANGED <<ownerVars, costVars, nlbVars, promptVars, monitorVars, barVars>>

\* go func() { defer wg.Done(); nodeMetrics, metricsErr = ...NodeMetricses().List(...) }()
MetricsTask ==
    /\ task["metrics"] = "running"
    /\ \E r \in MetricsCallResults :
         /\ nodeMetrics' = r.list
         /\ metricsErr' = r.err
    /\ writers' = Wrote("metrics", "nodeMetrics", "metricsErr")
    /\ wg' = wg - 1
    /\ task' = [task EXCEPT !["metrics"] = "done"]
    /\ UNCHANGED <<op, pc, metricsClient, nodes, nodeErr, pods, podErr,
                   replicaSets, rsErr, earlyRead, rsOwnerCache,
                   nodeStats, nodeMap, podIdx, nodeInfos, rows, result>>
    /\ UNCHANGED <<ownerVars, costVars, nlbVars, promptVars, monitorVars, barVars>>

\* Variant: the barrier opens while one goroutine is still registered.
WaitReleasedEarly == wg <= 1

\* wg.Wait() returns when the counter is zero.
WaitReleased == wg = 0

\* A read by the calling goroutine races with every fetch goroutine that is
\* still running.
ReadNow == earlyRead \/ \E t \in Tasks : task[t] = "running"

Wait ==
    /\ pc = "wait"
    /\ WaitReleased
    /\ pc' = "check"
    /\ UNCHANGED <<op, metricsClient, wg, task, nodes, nodeErr, pods, podErr,
                   replicaSets, rsErr, nodeMetrics, metricsErr, writers, earlyRead,
                   rsOwnerCache, nodeStats, nodeMap, podIdx, nodeInfos, rows, result>>
    /\ UNCHANGED <<ownerVars, costVars, nlbVars, promptVars, monitorVars, barVars>>

-----------------------------------------------------------------------------
(* Error check after the barrier *)

\* Variant: the pod error is not checked.
UsageHardErrorNodesOnly ==
    IF ~nodeErr.nil THEN WrapErr("failed to get nodes", nodeErr) ELSE NoErr

\* Variant: a metrics failure is treated as a hard failure.
UsageHardErrorMetricsHard ==
    IF ~nodeErr.nil THEN WrapErr("failed to get nodes", nodeErr)
    ELSE IF ~podErr.nil THEN WrapErr("failed to get pods", podErr)
    ELSE IF ~metricsClient \/ ~metricsErr.nil
      THEN WrapErr("failed to get metrics", metricsErr)
    ELSE NoErr

\* ShowNodeUsage: if nodeErr != nil {...}; if podErr != nil {...}
UsageHardError ==
    IF ~nodeErr.nil THEN WrapErr("failed to get nodes", nodeErr)
    ELSE IF ~podErr.nil THEN WrapErr("failed to get pods", podErr)
    ELSE NoErr

\* ShowPodDensity: the same, then if rsErr != nil {...}
\* Variant: the error slots are checked in the order pods, ReplicaSets, nodes.
DensityHardErrorNodesLast ==
    IF ~podErr.nil THEN WrapErr("failed to get pods", podErr)
    ELSE IF ~rsErr.nil THEN WrapErr("failed to get replicasets", rsErr)
    ELSE IF ~nodeErr.nil THEN WrapErr("failed to get nodes", nodeErr)
    ELSE NoErr

DensityHardError ==
    IF ~nodeErr.nil THEN WrapErr("failed to get nodes", nodeErr)
    ELSE IF ~podErr.nil THEN WrapErr("failed to get pods", podErr)
    ELSE IF ~rsErr.nil THEN WrapErr("failed to get replicasets", rsErr)
    ELSE NoErr

CheckErrors ==
    /\ pc = "check"
    /\ earlyRead' = ReadNow
    /\ LET e == IF op = "density" THEN DensityHardError ELSE UsageHardError IN
         IF ~e.nil
           THEN /\ pc' = "done"
                /\ result' = Returned(e)
           ELSE /\ pc' = IF op = "density" THEN "index" ELSE "nodes"
                /\ result' = result
    /\ UNCHANGED <<op, metricsClient, wg, task, nodes, nodeErr, pods, podErr,
                   replicaSets, rsErr, nodeMetrics, metricsErr, writers,
                   rsOwnerCache, nodeStats, nodeMap, podIdx, nodeInfos, rows>>
    /\ UNCHANGED <<ownerVars, costVars, nlbVars, promptVars, monitorVars, barVars>>

-----------------------------------------------------------------------------
(* Aggregation *)

\* ShowPodDensity: rsOwnerCache := make(map[string]string) and the loop over
\* replicaSets.Items.
BuildIndex ==
    /\ pc = "index"
    /\ earlyRead' = ReadNow
    /\ rsOwnerCache' = BuildCache(EmptyMap, replicaSets.items)
    /\ pc' = "nodes"
    /\ UNCHANGED <<op, metricsClient, wg, task, nodes, nodeErr, pods, podErr,
                   replicaSets, rsErr, nodeMetrics, metricsErr, writers,
                   nodeStats, nodeMap, podIdx, nodeInfos, rows, result>>
    /\ UNCHANGED <<ownerVars, costVars, nlbVars, promptVars, monitorVars, barVars>>

\* The record a node starts with: its name and capacity, every total zero.
NewNodeInfo(node) ==
    [name |-> node.name,
     cpuCapacity |-> node.cap.cpu, memoryCapacity |-> node.cap.mem,
     cpuRequests |-> 0, cpuLimits |-> 0, cpuUsage |-> 0,
     memoryRequests |-> 0, memoryLimits |-> 0, memoryUsage |-> 0]

RECURSIVE InitNodeStats(_, _)
InitNodeStats(stats, items) ==
    IF items = <<>> THEN stats
    ELSE InitNodeStats(MapPut(stats, Head(items).name, NewNodeInfo(Head(items))),
                       Tail(items))

RECURSIVE InitNodeMap(_, _)
InitNodeMap(m, items) ==
    IF items = <<>> THEN m
    ELSE InitNodeMap(MapPut(m, Head(items).name, EmptyMap), Tail(items))

\* nodeStats := make(...) and the loop over nodes.Items; the density view
\* also gives every node an empty owner map.
BuildNodeStats ==
    /\ pc = "nodes"
    /\ earlyRead' = ReadNow
    /\ nodeStats' = InitNodeStats(EmptyMap, nodes.items)
    /\ nodeMap' = IF op = "density" THEN InitNodeMap(EmptyMap, nodes.items) ELSE nodeMap
    /\ podIdx' = 1
    /\ pc' = "pods"
    /\ UNCHANGED <<op, metricsClient, wg, task, nodes, nodeErr, pods, podErr,
                   replicaSets, rsErr, nodeMetrics, metricsErr, writers,
                   rsOwnerCache, nodeInfos, rows, result>>
    /\ UNCHANGED <<ownerVars, costVars, nlbVars, promptVars, monitorVars, barVars>>

\* The container loop: each total grows by the pod's containers' values.
\* Variant: each total is set to the pod's containers' values.
AddPodReplacingTotals(info, pod) ==
    [info EXCEPT
       !.cpuRequests = ContainerSum(pod.containers, "requests", "cpu"),
       !.memoryRequests = ContainerSum(pod.containers, "requests", "memory"),
       !.cpuLimits = ContainerSum(pod.containers, "limits", "cpu"),
       !.memoryLimits = ContainerSum(pod.containers, "limits", "memory")]

AddPod(info, pod) ==
    [info EXCEPT
       !.cpuRequests = @ + ContainerSum(pod.containers, "requests", "cpu"),
       !.memoryRequests = @ + ContainerSum(pod.containers, "requests", "memory"),
       !.cpuLimits = @ + ContainerSum(pod.containers, "limits", "cpu"),
       !.memoryLimits = @ + ContainerSum(pod.containers, "limits", "memory")]

\* ShowNodeUsage, the body of the loop over pods.Items: a pod that is not
\* Running, has no node, or names a node without a record is skipped.
\* Variant: the phase of the pod is not looked at.
UsageStepAnyPhase(stats, pod) ==
    IF ~QualifiesAnyPhase(pod) \/ pod.nodeName \notin DOMAIN stats
      THEN stats
      ELSE [stats EXCEPT ![pod.nodeName] = AddPod(@, pod)]

UsageStep(stats, pod) ==
    IF ~Qualifies(pod) \/ pod.nodeName \notin DOMAIN stats
      THEN stats
      ELSE [stats EXCEPT ![pod.nodeName] = AddPod(@, pod)]

\* ShowNodeUsage, one iteration of the loop over pods.Items.
UsageProcessPod ==
    /\ pc = "pods"
    /\ op = "usage"
    /\ podIdx <= Len(pods.items)
    /\ earlyRead' = ReadNow
    /\ nodeStats' = UsageStep(nodeStats, pods.items[podIdx])
    /\ podIdx' = podIdx + 1
    /\ UNCHANGED <<op, pc, metricsClient, wg, task, nodes, nodeErr, pods, podErr,
                   replicaSets, rsErr, nodeMetrics, metricsErr, writers,
                   rsOwnerCache, nodeMap, nodeInfos, rows, result>>
    /\ UNCHANGED <<ownerVars, costVars, nlbVars, promptVars, monitorVars, barVars>>

NewOwnerInfo(owner, ownerType, ns) ==
    [Name |-> owner, Type |-> ownerType, Namespace |-> ns, PodCount |-> 0,
     CPURequest |-> 0, CPULimit |-> 0, MemRequest |-> 0, MemLimit |-> 0]

\* Variant: the owner record takes the requests and misses the limits.
AddPodToOwnerRequestsOnly(info, pod) ==
    [info EXCEPT
       !.PodCount = @ + 1,
       !.CPURequest = @ + ContainerSum(pod.containers, "requests", "cpu"),
       !.MemRequest = @ + ContainerSum(pod.containers, "requests", "memory")]

\* Variant: the pod count is set, not incremented.
AddPodToOwnerSetCount(info, pod) ==
    [info EXCEPT
       !.PodCount = 1,
       !.CPURequest = @ + ContainerSum(pod.containers, "requests", "cpu"),
       !.CPULimit = @ + ContainerSum(pod.containers, "limits", "cpu"),
       !.MemRequest = @ + ContainerSum(pod.containers, "requests", "memory"),
       !.MemLimit = @ + ContainerSum(pod.containers, "limits", "memory")]

AddPodToOwner(info, pod) ==
    [info EXCEPT
       !.PodCount = @ + 1,
       !.CPURequest = @ + ContainerSum(pod.containers, "requests", "cpu"),
       !.CPULimit = @ + ContainerSum(pod.containers, "limits", "cpu"),
       !.MemRequest = @ + ContainerSum(pod.containers, "requests", "memory"),
       !.MemLimit = @ + ContainerSum(pod.containers, "limits", "memory")]

\* ShowPodDensity, one iteration of the loop over pods.Items.  For a node
\* name that is no key of nodeMap, nodeMap[nodeName] is a nil map: reading
\* nodeMap[nodeName][key] yields nil and the assignment that follows panics
\* (assignment to entry in nil map).
DensityProcessPod ==
    /\ pc = "pods"
    /\ op = "density"
    /\ podIdx <= Len(pods.items)
    /\ earlyRead' = ReadNow
    /\ LET pod == pods.items[podIdx]
           ow == getPodOwnerFast(pod, rsOwnerCache)
           key == OwnerKey(pod.namespace, ow[2], ow[1])
       IN IF ~Qualifies(pod)
            THEN /\ podIdx' = podIdx + 1
                 /\ UNCHANGED <<pc, nodeStats, nodeMap, result>>
          ELSE IF pod.nodeName \notin DOMAIN nodeMap
            THEN /\ pc' = "done"
                 /\ result' = Panicked
                 /\ UNCHANGED <<podIdx, nodeStats, nodeMap>>
          ELSE LET ownerMap == nodeMap[pod.nodeName]
                   ownerInfo == IF key \in DOMAIN ownerMap THEN ownerMap[key]
                                ELSE NewOwnerInfo(ow[1], ow[2], pod.namespace)
               IN /\ nodeMap' = [nodeMap EXCEPT ![pod.nodeName] =
                                    MapPut(ownerMap, key, AddPodToOwner(ownerInfo, pod))]
                  /\ nodeStats' = [nodeStats EXCEPT ![pod.nodeName] = AddPod(@, pod)]
                  /\ podIdx' = podIdx + 1
                  /\ UNCHANGED <<pc, result>>
    /\ UNCHANGED <<op, metricsClient, wg, task, nodes, nodeErr, pods, podErr,
                   replicaSets, rsErr, nodeMetrics, metricsErr, writers,
                   rsOwnerCache, nodeInfos, rows>>
    /\ UNCHANGED <<ownerVars, costVars, nlbVars, promptVars, monitorVars, barVars>>

\* if nodeMetrics != nil && metricsErr == nil
MetricsUsable == ~nodeMetrics.nil /\ metricsErr.nil

RECURSIVE ApplyMetrics(_, _)
ApplyMetrics(stats, items) ==
    IF items = <<>> THEN stats
    ELSE LET metric == Head(items) IN
         ApplyMetrics(IF metric.name \in DOMAIN stats
                        THEN [stats EXCEPT ![metric.name].cpuUsage = metric.cpu,
                                           ![metric.name].memoryUsage = metric.mem]
                        ELSE stats,
                      Tail(items))

\* After the pod loop: the loop over nodeMetrics.Items.
AddMetrics ==
    /\ pc = "pods"
    /\ podIdx > Len(pods.items)
    /\ earlyRead' = ReadNow
    /\ nodeStats' = IF MetricsUsable THEN ApplyMetrics(nodeStats, nodeMetrics.items)
                    ELSE nodeStats
    /\ pc' = IF op = "density" THEN "collect" ELSE "output"
    /\ UNCHANGED <<op, metricsClient, wg, task, nodes, nodeErr, pods, podErr,
                   replicaSets, rsErr, nodeMetrics, metricsErr, writers,
                   rsOwnerCache, nodeMap, podIdx, nodeInfos, rows, result>>
    /\ UNCHANGED <<ownerVars, costVars, nlbVars, promptVars, monitorVars, barVars>>

-----------------------------------------------------------------------------
(* Output *)

\* The columns printed for a node by both views.
NodeCells(info) ==
    [name |-> info.name,
     cpuCapacity |-> info.cpuCapacity,
     cpuRequests |-> info.cpuRequests,
     cpuRequestsPct |-> Percent(info.cpuRequests, info.cpuCapacity),
     cpuLimits |-> info.cpuLimits,
     cpuLimitsPct |-> Percent(info.cpuLimits, info.cpuCapacity),
     cpuUsage |-> UsageCell(info.cpuUsage, info.cpuCapacity),
     memoryCapacity |-> info.memoryCapacity,
     memoryRequests |-> info.memoryRequests,
     memoryRequestsPct |-> Percent(info.memoryRequests, info.memoryCapacity),
     memoryLimits |-> info.memoryLimits,
     memoryLimitsPct |-> Percent(info.memoryLimits, info.memoryCapacity),
     memoryUsage |-> UsageCell(info.memoryUsage, info.memoryCapacity)]

\* ShowNodeUsage: for _, nodeInfo := range nodeStats prints one row per map
\* entry, in the unspecified order of a Go map iteration; then return nil.
UsageOutput ==
    /\ pc = "output"
    /\ op = "usage"
    /\ \E order \in Perms(DOMAIN nodeStats) :
         rows' = [i \in 1..Len(order) |-> NodeCells(nodeStats[order[i]])]
    /\ pc' = "done"
    /\ result' = Returned(NoErr)
    /\ UNCHANGED <<op, metricsClient, wg, task, nodes, nodeErr, pods, podErr,
                   replicaSets, rsErr, nodeMetrics, metricsErr, writers, earlyRead,
                   rsOwnerCache, nodeStats, nodeMap, podIdx, nodeInfos>>
    /\ UNCHANGED <<ownerVars, costVars, nlbVars, promptVars, monitorVars, barVars>>

MapValues(m) == {m[k] : k \in DOMAIN m}

\* less(i, j) of the sort.Slice call: owners[i].PodCount > owners[j].PodCount
OwnerLess(a, b) == a.PodCount > b.PodCount

\* sort.Slice leaves a permutation in which no element is less than one
\* before it.
IsSortedBy(s) == \A i, j \in 1..Len(s) : i < j => ~OwnerLess(s[j], s[i])

\* The owners slice of a node after the sort: the owner records are appended
\* in the unspecified order of a map iteration and sort.Slice is not stable,
\* so every sorted permutation of the records can come out.
SortedOwners(ownerMap) == {s \in Perms(MapValues(ownerMap)) : IsSortedBy(s)}

RECURSIVE TotalPods(_)
TotalPods(owners) ==
    IF owners = <<>> THEN 0 ELSE Head(owners).PodCount + TotalPods(Tail(owners))

\* ShowPodDensity: the loop over nodeMap that builds nodeInfos.
Collect ==
    /\ pc = "collect"
    /\ \E order \in Perms(DOMAIN nodeMap) :
       \E owners \in [DOMAIN nodeMap -> UNION {SortedOwners(nodeMap[n]) : n \in DOMAIN nodeMap}] :
         /\ \A n \in DOMAIN nodeMap : owners[n] \in SortedOwners(nodeMap[n])
         /\ nodeInfos' = [i \in 1..Len(order) |->
                            [info |-> nodeStats[order[i]],
                             PodCount |-> TotalPods(owners[order[i]]),
                             Owners |-> owners[order[i]]]]
    /\ pc' = "output"
    /\ UNCHANGED <<op, metricsClient, wg, task, nodes, nodeErr, pods, podErr,
                   replicaSets, rsErr, nodeMetrics, metricsErr, writers, earlyRead,
                   rsOwnerCache, nodeStats, nodeMap, podIdx, rows, result>>
    /\ UNCHANGED <<ownerVars, costVars, nlbVars, promptVars, monitorVars, barVars>>

\* ShowPodDensity: the loop over nodeInfos that prints each node and its
\* owner table; then return nil.
DensityOutput ==
    /\ pc = "output"
    /\ op = "density"
    /\ rows' = [i \in 1..Len(nodeInfos) |->
                  [cells |-> NodeCells(nodeInfos[i].info),
                   PodCount |-> nodeInfos[i].PodCount,
                   Owners |-> nodeInfos[i].Owners]]
    /\ pc' = "done"
    /\ result' = Returned(NoErr)
    /\ UNCHANGED <<op, metricsClient, wg, task, nodes, nodeErr, pods, podErr,
                   replicaSets, rsErr, nodeMetrics, metricsErr, writers, earlyRead,
                   rsOwnerCache, nodeStats, nodeMap, podIdx, nodeInfos>>
    /\ UNCHANGED <<ownerVars, costVars, nlbVars, promptVars, monitorVars, barVars>>

-----------------------------------------------------------------------------
(* The runs of ShowNodeUsage and ShowPodDensity *)

Next ==
    \/ Start
    \/ LaunchRequired
    \/ LaunchMetrics
    \/ NodesTask
    \/ PodsTask
    \/ ReplicaSetsTask
    \/ MetricsTask
    \/ Wait
    \/ CheckErrors
    \/ BuildIndex
    \/ BuildNodeStats
    \/ UsageProcessPod
    \/ DensityProcessPod
    \/ AddMetrics
    \/ UsageOutput
    \/ Collect
    \/ DensityOutput

Spec == Init /\ [][Next]_vars

-----------------------------------------------------------------------------
(* Owner resolution alone: getPodOwnerFast on any pod and any index *)

RefKinds == {"ReplicaSet", "DaemonSet", "StatefulSet", "Job", "CronJob"}
RefNames == {"rs1", "w"}
OwnerRefs == {Ref(k, n) : k \in RefKinds, n \in RefNames}

QueryPods ==
    {[name |-> "p1", namespace |-> ns, ownerRefs |-> refs] :
        ns \in {"a", "b"}, refs \in SeqsUpTo(OwnerRefs, MaxOwnerRefs)}

\* ReplicaSet listings for the index: rs1 of namespace a and rs1 of namespace
\* b, each absent, without owner or owned by a Deployment; w of namespace a.
RSOwnerChoices == {<<>>, <<Ref("Deployment", "d1")>>, <<Ref("Deployment", "d2")>>}

QueryRSListings ==
    {<<>>, <<RS("a", "w", <<Ref("Deployment", "d3")>>)>>}
      \cup {<<RS("a", "rs1", ra)>> : ra \in RSOwnerChoices}
      \cup {<<RS("b", "rs1", rb)>> : rb \in RSOwnerChoices}
      \cup {<<RS("a", "rs1", ra), RS("b", "rs1", rb)>> :
               ra \in RSOwnerChoices, rb \in RSOwnerChoices}

InitOwner ==
    /\ InitRun
    /\ qPod \in QueryPods
    /\ qRS \in QueryRSListings
    /\ qCache = BuildCache(EmptyMap, qRS)
    /\ qOut = <<>>
    /\ qOut2 = <<>>
    /\ InitCostIdle
    /\ InitNLBIdle
    /\ InitPromptIdle
    /\ InitMonitorIdle
    /\ InitBarIdle

\* The index after a call of getPodOwnerFast: the function reads
\* rsOwnerCache[key] and never assigns to the map it was handed.
\* Variant: a miss is remembered under the ReplicaSet's key.
CacheAfterCallMemo(pod, cache) ==
    IF /\ pod.ownerRefs # <<>>
       /\ Head(pod.ownerRefs).kind = "ReplicaSet"
       /\ RsKey(pod.namespace, Head(pod.ownerRefs).name) \notin DOMAIN cache
      THEN MapPut(cache, RsKey(pod.namespace, Head(pod.ownerRefs).name),
                  Head(pod.ownerRefs).name)
      ELSE cache

CacheAfterCall(pod, cache) == cache

\* owner, ownerType := getPodOwnerFast(&pod, rsOwnerCache)
Resolve ==
    /\ qOut = <<>>
    /\ qOut' = getPodOwnerFast(qPod, qCache)
    /\ qCache' = CacheAfterCall(qPod, qCache)
    /\ UNCHANGED <<qPod, qRS, qOut2>>
    /\ UNCHANGED <<runVars, costVars, nlbVars, promptVars, monitorVars, barVars>>

\* A second call with the same pod and the same map.
ResolveAgain ==
    /\ qOut # <<>>
    /\ qOut2 = <<>>
    /\ qOut2' = getPodOwnerFast(qPod, qCache)
    /\ qCache' = CacheAfterCall(qPod, qCache)
    /\ UNCHANGED <<qPod, qRS, qOut>>
    /\ UNCHANGED <<runVars, costVars, nlbVars, promptVars, monitorVars, barVars>>

NextOwner ==
    \/ Resolve
    \/ ResolveAgain

SpecOwner == InitOwner /\ [][NextOwner]_vars

-----------------------------------------------------------------------------
(* Cluster cost estimation: EstimateClusterCost                             *)
(*                                                                         *)
(* Money.  Prices are float64 dollars in the code; the model keeps every   *)
(* price and every cost in thousandths of a dollar as integers (0.096      *)
(* dollars an hour is 96), so products and sums are exact.  Capacities of  *)
(* persistent volumes are kept in MiB: Value() / (1024*1024*1024) on bytes *)
(* is the integer division of the MiB count by 1024.                       *)

MaxCostNodes == 5
MaxPVs == 2
MaxServices == 2

HoursPerMonth == 730
MiPerGi == 1024

InstanceTypeLabel == "node.kubernetes.io/instance-type"
BetaInstanceTypeLabel == "beta.kubernetes.io/instance-type"
RegionLabel == "topology.kubernetes.io/region"
LBTypeAnnotation == "service.beta.kubernetes.io/aws-load-balancer-type"

\* m[key] of a Go map[string]string: the empty string for a missing key.
Lookup(m, key) == IF key \in DOMAIN m THEN m[key] ELSE ""

\* Nodes as the cost estimation reads them: their labels.
CostNodeShapes ==
    { [Labels |-> (InstanceTypeLabel :> "m5.large" @@ RegionLabel :> "us-east-1")],
      [Labels |-> (InstanceTypeLabel :> "m7g.custom" @@ RegionLabel :> "us-east-1")],
      [Labels |-> (BetaInstanceTypeLabel :> "m5.large")],
      [Labels |-> EmptyMap] }

CostNodeListings == SeqsUpTo(CostNodeShapes, MaxCostNodes)

StorageClass(name, provisioner, params) ==
    [Name |-> name, Provisioner |-> provisioner, Parameters |-> params]

\* Storage class listings: none, gp3sc alone, and gp3sc with a class without
\* type parameter, an io2 class and a class of another provisioner.
SCListings ==
    { <<>>,
      <<StorageClass("gp3sc", "ebs.csi.aws.com", "type" :> "gp3")>>,
      <<StorageClass("gp3sc", "ebs.csi.aws.com", "type" :> "gp3"),
        StorageClass("defsc", "kubernetes.io/aws-ebs", EmptyMap),
        StorageClass("io2sc", "ebs.csi.aws.com", "type" :> "io2"),
        StorageClass("nfs", "nfs.csi.k8s.io", "type" :> "gp3")>> }

\* Persistent volumes: storage class name and capacity in MiB.
PVShapes ==
    { [StorageClassName |-> "gp3sc", Capacity |-> 1536],
      [StorageClassName |-> "defsc", Capacity |-> 2048],
      [StorageClassName |-> "io2sc", Capacity |-> 10240],
      [StorageClassName |-> "nfs", Capacity |-> 4096],
      [StorageClassName |-> "", Capacity |-> 1024] }

PVListings == SeqsUpTo(PVShapes, MaxPVs)

\* Services: type and annotations; an annotation value is its characters.
ServiceShapes ==
    { [Type |-> "LoadBalancer", Annotations |-> EmptyMap],
      [Type |-> "LoadBalancer",
       Annotations |-> (LBTypeAnnotation :> <<"n", "l", "b", "-", "i", "p">>)],
      [Type |-> "LoadBalancer", Annotations |-> (LBTypeAnnotation :> <<"a", "l", "b">>)],
      [Type |-> "LoadBalancer",
       Annotations |-> (LBTypeAnnotation :> <<"e", "x", "t">>)],
      [Type |-> "ClusterIP", Annotations |-> (LBTypeAnnotation :> <<"n", "l", "b">>)] }

ServiceListings == SeqsUpTo(ServiceShapes, MaxServices)

\* The pricing tables the embedded cost-estimate.json may hold.
PricingConfig(ec2, ebs, lb) ==
    [nil |-> FALSE, EC2Pricing |-> ec2, EBSPricing |-> ebs, LBPricing |-> lb]

PricingTables ==
    { PricingConfig("m5.large" :> 96, "gp3" :> 80,
                    "classic" :> 25 @@ "network" :> 22),
      PricingConfig("m5.large" :> 96 @@ "m7g.custom" :> 200,
                    "gp3" :> 80 @@ "io2" :> 125,
                    "classic" :> 25 @@ "network" :> 22 @@ "application" :> 23) }

\* counts[key]++ on a Go map[string]int.
Incr(counts, key, by) ==
    MapPut(counts, key, (IF key \in DOMAIN counts THEN counts[key] ELSE 0) + by)

\* The instance type of a node: the label, else the beta label.
InstanceTypeOf(node) ==
    IF Lookup(node.Labels, InstanceTypeLabel) = ""
      THEN Lookup(node.Labels, BetaInstanceTypeLabel)
      ELSE Lookup(node.Labels, InstanceTypeLabel)

RECURSIVE InstanceCounts(_, _)
InstanceCounts(counts, items) ==
    IF items = <<>> THEN counts
    ELSE LET instanceType == InstanceTypeOf(Head(items))
         IN  InstanceCounts(IF instanceType # "" THEN Incr(counts, instanceType, 1)
                                                 ELSE counts,
                            Tail(items))

EC2Instance(instanceType, count) ==
    [InstanceType |-> instanceType, Count |-> count, HourlyCost |-> 0,
     MonthlyCost |-> 0]

RECURSIVE ScToVolumeType(_, _)
ScToVolumeType(m, items) ==
    IF items = <<>> THEN m
    ELSE LET sc == Head(items)
             volumeType == IF Lookup(sc.Parameters, "type") = "" THEN "gp3"
                           ELSE Lookup(sc.Parameters, "type")
         IN  ScToVolumeType(
                 IF sc.Provisioner = "ebs.csi.aws.com"
                      \/ sc.Provisioner = "kubernetes.io/aws-ebs"
                   THEN MapPut(m, sc.Name, volumeType) ELSE m,
                 Tail(items))

\* sizeGi := pv.Spec.Capacity.Storage().Value() / (1024 * 1024 * 1024)
SizeGi(pv) == pv.Capacity \div MiPerGi

RECURSIVE VolumeInfo(_, _, _)
VolumeInfo(info, scMap, items) ==
    IF items = <<>> THEN info
    ELSE LET pv == Head(items)
             volumeType == Lookup(scMap, pv.StorageClassName)
         IN  VolumeInfo(IF pv.StorageClassName # "" /\ volumeType # ""
                          THEN Incr(info, volumeType, SizeGi(pv)) ELSE info,
                        scMap, Tail(items))

EBSVolume(volumeType, totalSize) ==
    [VolumeType |-> volumeType, SizeGB |-> totalSize, Count |-> 1,
     MonthlyCost |-> 0]

\* strings.Contains
Contains(s, substr) ==
    \E i \in 1..(Len(s) - Len(substr) + 1) :
        SubSeq(s, i, i + Len(substr) - 1) = substr

LBTypeOf(svc) ==
    IF LBTypeAnnotation \in DOMAIN svc.Annotations
      THEN IF Contains(svc.Annotations[LBTypeAnnotation], <<"n", "l", "b">>)
             THEN "network"
           ELSE IF Contains(svc.Annotations[LBTypeAnnotation], <<"a", "l", "b">>)
             THEN "application"
           ELSE "classic"
      ELSE "classic"

RECURSIVE LBCounts(_, _)
LBCounts(counts, items) ==
    IF items = <<>> THEN counts
    ELSE LBCounts(IF Head(items).Type = "LoadBalancer"
                    THEN Incr(counts, LBTypeOf(Head(items)), 1) ELSE counts,
                  Tail(items))

LoadBalancer(lbType, count) ==
    [Type |-> lbType, Count |-> count, HourlyCost |-> 0, MonthlyCost |-> 0]

CostReturned(e, printed) == [state |-> "returned", err |-> e, printed |-> printed]

\* common.GetKubernetesClient and costInfo := &ClusterCostInfo{}.
CostStart ==
    /\ costPc = "idle"
    /\ \E cerr \in {NoErr, BaseErr(ErrOf("kubeconfig"))} :
         IF ~cerr.nil
           THEN /\ costPc' = "done"
                /\ costResult' =
                     CostReturned(WrapErr("failed to create Kubernetes client", cerr), FALSE)
                /\ costInfo' = costInfo
           ELSE /\ costPc' = "region"
                /\ costResult' = costResult
                /\ costInfo' = NewCostInfo
    /\ UNCHANGED <<costNodes, pvs, scs, services, pricing, costIdx, warnings>>
    /\ UNCHANGED <<runVars, ownerVars, nlbVars, promptVars, monitorVars, barVars>>

\* The node list call of EstimateClusterCost: the region is the region label
\* of the first node of this listing.
ListNodesForRegion ==
    /\ costPc = "region"
    /\ \E listing \in CostNodeListings, err \in {NoErr, BaseErr(ErrOf("nodes"))} :
         IF ~err.nil
           THEN /\ costPc' = "done"
                /\ costResult' = CostReturned(WrapErr("failed to list nodes", err), FALSE)
                /\ costInfo' = costInfo
           ELSE /\ costPc' = "ec2"
                /\ costResult' = costResult
                /\ costInfo' =
                     IF Len(listing) > 0
                       THEN [costInfo EXCEPT
                               !.Region = Lookup(listing[1].Labels, RegionLabel)]
                       ELSE costInfo
    /\ UNCHANGED <<costNodes, pvs, scs, services, pricing, costIdx, warnings>>
    /\ UNCHANGED <<runVars, ownerVars, nlbVars, promptVars, monitorVars, barVars>>

\* getEC2InstancesFromNodes: its own node list call, the count per instance
\* type, and one EC2Instance per type in the iteration order of the map.
GetEC2InstancesFromNodes ==
    /\ costPc = "ec2"
    /\ \E listing \in CostNodeListings, err \in {NoErr, BaseErr(ErrOf("nodes"))} :
         IF ~err.nil
           THEN /\ costPc' = "done"
                /\ costResult' =
                     CostReturned(WrapErr("failed to get EC2 instances", err), FALSE)
                /\ UNCHANGED <<costInfo, costNodes>>
           ELSE LET instanceCounts == InstanceCounts(EmptyMap, listing)
                IN  /\ costPc' = "ec2ret"
                    /\ costResult' = costResult
                    /\ costNodes' = ListOf(listing)
                    /\ \E order \in Perms(DOMAIN instanceCounts) :
                         costInfo' =
                           [costInfo EXCEPT
                              !.EC2Instances =
                                 @ \o [i \in 1..Len(order) |->
                                         EC2Instance(order[i], instanceCounts[order[i]])]]
    /\ UNCHANGED <<pvs, scs, services, pricing, costIdx, warnings>>
    /\ UNCHANGED <<runVars, ownerVars, nlbVars, promptVars, monitorVars, barVars>>

\* getEBSVolumesFromPVs: the volume and storage class list calls, the map
\* storage class -> volume type, the size per volume type, and one EBSVolume
\* per type in the iteration order of the map.
GetEBSVolumesFromPVs ==
    /\ costPc = "ebs"
    /\ \E pvListing \in PVListings, pvErr \in {NoErr, BaseErr(ErrOf("persistentvolumes"))},
          scListing \in SCListings, scErr \in {NoErr, BaseErr(ErrOf("storageclasses"))} :
         IF ~pvErr.nil \/ ~scErr.nil
           THEN /\ costPc' = "done"
                /\ costResult' =
                     CostReturned(WrapErr("failed to get EBS volumes",
                                          IF ~pvErr.nil THEN pvErr ELSE scErr), FALSE)
                /\ UNCHANGED <<costInfo, pvs, scs>>
           ELSE LET scToVolumeType == ScToVolumeType(EmptyMap, scListing)
                    volumeInfo == VolumeInfo(EmptyMap, scToVolumeType, pvListing)
                IN  /\ costPc' = "ebsret"
                    /\ costResult' = costResult
                    /\ pvs' = ListOf(pvListing)
                    /\ scs' = ListOf(scListing)
                    /\ \E order \in Perms(DOMAIN volumeInfo) :
                         costInfo' =
                           [costInfo EXCEPT
                              !.EBSVolumes =
                                 @ \o [i \in 1..Len(order) |->
                                         EBSVolume(order[i], volumeInfo[order[i]])]]
    /\ UNCHANGED <<costNodes, services, pricing, costIdx, warnings>>
    /\ UNCHANGED <<runVars, ownerVars, nlbVars, promptVars, monitorVars, barVars>>

\* getLoadBalancersFromServices: the service list call, the count per load
\* balancer type, and one LoadBalancer per type in the iteration order of the map.
GetLoadBalancersFromServices ==
    /\ costPc = "lb"
    /\ \E listing \in ServiceListings, err \in {NoErr, BaseErr(ErrOf("services"))} :
         IF ~err.nil
           THEN /\ costPc' = "done"
                /\ costResult' =
                     CostReturned(WrapErr("failed to get load balancers", err), FALSE)
                /\ UNCHANGED <<costInfo, services>>
           ELSE LET lbCounts == LBCounts(EmptyMap, listing)
                IN  /\ costPc' = "lbret"
                    /\ costResult' = costResult
                    /\ services' = ListOf(listing)
                    /\ \E order \in Perms(DOMAIN lbCounts) :
                         costInfo' =
                           [costInfo EXCEPT
                              !.LoadBalancers =
                                 @ \o [i \in 1..Len(order) |->
                                         LoadBalancer(order[i], lbCounts[order[i]])]]
    /\ UNCHANGED <<costNodes, pvs, scs, pricing, costIdx, warnings>>
    /\ UNCHANGED <<runVars, ownerVars, nlbVars, promptVars, monitorVars, barVars>>

\* return nil of getEC2InstancesFromNodes, getEBSVolumesFromPVs and
\* getLoadBalancersFromServices: the listings of the function go out of scope.
InventoryReturned ==
    /\ costPc \in {"ec2ret", "ebsret", "lbret"}
    /\ costPc' = CASE costPc = "ec2ret" -> "ebs"
                   [] costPc = "ebsret" -> "lb"
                   [] costPc = "lbret" -> "calc"
    /\ costNodes' = NilList
    /\ pvs' = NilList /\ scs' = NilList
    /\ services' = NilList
    /\ UNCHANGED <<costInfo, pricing, costIdx, warnings, costResult>>
    /\ UNCHANGED <<runVars, ownerVars, nlbVars, promptVars, monitorVars, barVars>>

\* calculateCosts, its head: loadPricingConfig; a failure is the only error
\* calculateCosts returns.
LoadPricingConfig ==
    /\ costPc = "calc"
    /\ \E config \in PricingTables \cup {NoPricing} :
         IF config.nil
           THEN /\ costPc' = "done"
                /\ costResult' =
                     CostReturned(
                       WrapErr("failed to calculate costs",
                               WrapErr("failed to load pricing config",
                                       BaseErr("unexpected end of JSON input"))),
                       FALSE)
                /\ UNCHANGED <<pricing, costIdx>>
           ELSE /\ costPc' = "ec2loop"
                /\ costResult' = costResult
                /\ pricing' = config
                /\ costIdx' = 1
    /\ UNCHANGED <<costInfo, costNodes, pvs, scs, services, warnings>>
    /\ UNCHANGED <<runVars, ownerVars, nlbVars, promptVars, monitorVars, barVars>>

Warning(name) == "Warning: No price found for " \o name \o ", skipping"
LBWarning(name) == "Warning: No price found for " \o name \o " LB, skipping"

\* fmt.Printf of a warning line
\* Variant: nothing is printed.
PrintfNothing(printed, line) == printed

Printf(printed, line) == Append(printed, line)

\* price * 730 * float64(Count)
\* Variant: the count is left out.
HourlyToMonthlyNoCount(price, count) == price * HoursPerMonth

HourlyToMonthly(price, count) == price * HoursPerMonth * count

\* price * float64(SizeGB)
PerGBToMonthly(price, sizeGB) == price * sizeGB

\* costInfo.TotalCost += monthlyCost
\* Variant: the total is assigned, not added to.
AddToTotalReplacing(total, monthlyCost) == monthlyCost

AddToTotal(total, monthlyCost) == total + monthlyCost

\* One iteration of the loop over costInfo.EC2Instances, or its exit.
PriceEC2Instances ==
    /\ costPc = "ec2loop"
    /\ IF costIdx > Len(costInfo.EC2Instances)
         THEN /\ costPc' = "ebsloop"
              /\ costIdx' = 1
              /\ UNCHANGED <<costInfo, warnings>>
         ELSE LET item == costInfo.EC2Instances[costIdx]
                  priced == item.InstanceType \in DOMAIN pricing.EC2Pricing
                  price == pricing.EC2Pricing[item.InstanceType]
                  monthly == HourlyToMonthly(price, item.Count)
              IN  /\ costPc' = costPc
                  /\ costIdx' = costIdx + 1
                  /\ IF ~priced
                       THEN /\ warnings' = Printf(warnings, Warning(item.InstanceType))
                            /\ costInfo' = costInfo
                       ELSE /\ warnings' = warnings
                            /\ costInfo' =
                                 [costInfo EXCEPT
                                    !.EC2Instances[costIdx].HourlyCost = price,
                                    !.EC2Instances[costIdx].MonthlyCost = monthly,
                                    !.TotalCost = AddToTotal(@, monthly)]
    /\ UNCHANGED <<costNodes, pvs, scs, services, pricing, costResult>>
    /\ UNCHANGED <<runVars, ownerVars, nlbVars, promptVars, monitorVars, barVars>>

\* One iteration of the loop over costInfo.EBSVolumes, or its exit.
PriceEBSVolumes ==
    /\ costPc = "ebsloop"
    /\ IF costIdx > Len(costInfo.EBSVolumes)
         THEN /\ costPc' = "lbloop"
              /\ costIdx' = 1
              /\ UNCHANGED <<costInfo, warnings>>
         ELSE LET item == costInfo.EBSVolumes[costIdx]
                  priced == item.VolumeType \in DOMAIN pricing.EBSPricing
                  price == pricing.EBSPricing[item.VolumeType]
                  monthly == PerGBToMonthly(price, item.SizeGB)
              IN  /\ costPc' = costPc
                  /\ costIdx' = costIdx + 1
                  /\ IF ~priced
                       THEN /\ warnings' = Printf(warnings, Warning(item.VolumeType))
                            /\ costInfo' = costInfo
                       ELSE /\ warnings' = warnings
                            /\ costInfo' =
                                 [costInfo EXCEPT
                                    !.EBSVolumes[costIdx].MonthlyCost = monthly,
                                    !.TotalCost = AddToTotal(@, monthly)]
    /\ UNCHANGED <<costNodes, pvs, scs, services, pricing, costResult>>
    /\ UNCHANGED <<runVars, ownerVars, nlbVars, promptVars, monitorVars, barVars>>

\* One iteration of the loop over costInfo.LoadBalancers, or its exit, which
\* is the return of calculateCosts.
PriceLoadBalancers ==
    /\ costPc = "lbloop"
    /\ IF costIdx > Len(costInfo.LoadBalancers)
         THEN /\ costPc' = "print"
              /\ costIdx' = 0
              /\ UNCHANGED <<costInfo, warnings>>
         ELSE LET item == costInfo.LoadBalancers[costIdx]
                  priced == item.Type \in DOMAIN pricing.LBPricing
                  price == pricing.LBPricing[item.Type]
                  monthly == HourlyToMonthly(price, item.Count)
              IN  /\ costPc' = costPc
                  /\ costIdx' = costIdx + 1
                  /\ IF ~priced
                       THEN /\ warnings' = Printf(warnings, LBWarning(item.Type))
                            /\ costInfo' = costInfo
                       ELSE /\ warnings' = warnings
                            /\ costInfo' =
                                 [costInfo EXCEPT
                                    !.LoadBalancers[costIdx].HourlyCost = price,
                                    !.LoadBalancers[costIdx].MonthlyCost = monthly,
                                    !.TotalCost = AddToTotal(@, monthly)]
    /\ UNCHANGED <<costNodes, pvs, scs, services, pricing, costResult>>
    /\ UNCHANGED <<runVars, ownerVars, nlbVars, promptVars, monitorVars, barVars>>

\* printCostEstimation(costInfo); return nil
PrintCostEstimation ==
    /\ costPc = "print"
    /\ costPc' = "done"
    /\ costResult' = CostReturned(NoErr, TRUE)
    /\ UNCHANGED <<costInfo, costNodes, pvs, scs, services, pricing, costIdx, warnings>>
    /\ UNCHANGED <<runVars, ownerVars, nlbVars, promptVars, monitorVars, barVars>>

NextCost ==
    \/ CostStart
    \/ ListNodesForRegion
    \/ GetEC2InstancesFromNodes
    \/ GetEBSVolumesFromPVs
    \/ GetLoadBalancersFromServices
    \/ InventoryReturned
    \/ LoadPricingConfig
    \/ PriceEC2Instances
    \/ PriceEBSVolumes
    \/ PriceLoadBalancers
    \/ PrintCostEstimation

SpecCost == Init /\ [][NextCost]_vars

-----------------------------------------------------------------------------
(* Network load balancer listing: ListNLBs *)

MaxPages == 3
MaxLBsPerPage == 2
MaxLines == 2
MaxCandidates == 3
MaxPrompts == 3
MaxBarArg == 4
MaxEvents == 2

\* createProgressBar(..., 10): the width of every bar of the dashboard.
BarWidth == 10
\* The mock metrics fetchASGData fills in.
MockCPUUtilization == 72
MockNetworkUsage == 75

\* A *string of the SDK: nil, or a pointer to a value.
NilString == [nil |-> TRUE, val |-> ""]
String(s) == [nil |-> FALSE, val |-> s]

\* aws.StringValue
StringValue(p) == IF p.nil THEN "" ELSE p.val

DescribedLB(type, name, zones) ==
    [Type |-> type, LoadBalancerName |-> String(name),
     DNSName |-> String(name \o ".elb.amazonaws.com"), AvailabilityZones |-> zones]

\* Load balancers a page can hold: a network load balancer with one address,
\* one whose address has no IpAddress, an application load balancer, and a
\* load balancer without Type.
DescribedLBs ==
    { DescribedLB(String("network"), "nlb1", << <<String("10.0.0.1")>> >>),
      DescribedLB(String("network"), "nlb2", << <<NilString>> >>),
      DescribedLB(String("application"), "alb1", <<>>),
      DescribedLB(NilString, "lb0", <<>>) }

\* append to a slice: the result is never nil.
AppendTo(slice, x) == [nil |-> FALSE, items |-> Append(slice.items, x)]

\* The loops over lb.AvailabilityZones and az.LoadBalancerAddresses.
RECURSIVE AddressIPs(_, _)
AddressIPs(ips, addresses) ==
    IF addresses = <<>> THEN ips
    ELSE AddressIPs(IF ~Head(addresses).nil
                      THEN AppendTo(ips, StringValue(Head(addresses))) ELSE ips,
                    Tail(addresses))

RECURSIVE ZoneIPs(_, _)
ZoneIPs(ips, zones) ==
    IF zones = <<>> THEN ips
    ELSE ZoneIPs(AddressIPs(ips, Head(zones)), Tail(zones))

NLBInfo(lb) ==
    [Name |-> StringValue(lb.LoadBalancerName), DNSName |-> StringValue(lb.DNSName),
     IPs |-> ZoneIPs(NilSlice, lb.AvailabilityZones)]

\* The page callback: every load balancer of type network is appended.
RECURSIVE AppendNLBs(_, _)
AppendNLBs(info, lbs) ==
    IF lbs = <<>> THEN info
    ELSE AppendNLBs(IF ~Head(lbs).Type.nil /\ Head(lbs).Type.val = "network"
                      THEN AppendTo(info, NLBInfo(Head(lbs))) ELSE info,
                    Tail(lbs))

NLBReturned(list, e) == [state |-> "returned", list |-> list, err |-> e]

\* return nil, fmt.Errorf("failed to describe load balancers: %w", err)
\* Variant: the slice accumulated so far is returned with the error.
ReturnErrorWithPartial(info, msg, e) == NLBReturned(info, WrapErr(msg, e))

ReturnError(info, msg, e) == NLBReturned(NilSlice, WrapErr(msg, e))

\* session.NewSession and var nlbsInfo []NLBInfo.
NLBStart ==
    /\ nlbPc = "idle"
    /\ \E err \in {NoErr, BaseErr("could not load session")} :
         IF ~err.nil
           THEN /\ nlbPc' = "done"
                /\ nlbResult' =
                     NLBReturned(NilSlice, WrapErr("failed to create AWS session", err))
           ELSE /\ nlbPc' = "pages"
                /\ nlbResult' = nlbResult
    /\ nlbsInfo' = NilSlice
    /\ UNCHANGED nlbPages
    /\ UNCHANGED <<runVars, ownerVars, costVars, promptVars, monitorVars, barVars>>

\* DescribeLoadBalancersPages hands one page to the callback; the callback
\* returns !lastPage, and paging ends with the last page.
NLBPage ==
    /\ nlbPc = "pages"
    /\ nlbPages < MaxPages
    /\ \E page \in SeqsUpTo(DescribedLBs, MaxLBsPerPage), lastPage \in BOOLEAN :
         /\ (nlbPages + 1 = MaxPages) => lastPage
         /\ nlbsInfo' = AppendNLBs(nlbsInfo, page)
         /\ nlbPc' = IF lastPage THEN "described" ELSE "pages"
    /\ nlbPages' = nlbPages + 1
    /\ UNCHANGED nlbResult
    /\ UNCHANGED <<runVars, ownerVars, costVars, promptVars, monitorVars, barVars>>

\* The request for the next page fails: DescribeLoadBalancersPages returns
\* the error, after the callback may have run on earlier pages.
NLBPageFails ==
    /\ nlbPc = "pages"
    /\ nlbPc' = "failed"
    /\ UNCHANGED <<nlbsInfo, nlbPages, nlbResult>>
    /\ UNCHANGED <<runVars, ownerVars, costVars, promptVars, monitorVars, barVars>>

\* if err != nil { return nil, ... }; return nlbsInfo, nil
NLBReturn ==
    /\ nlbPc \in {"described", "failed"}
    /\ nlbPc' = "done"
    /\ nlbResult' =
         IF nlbPc = "failed"
           THEN ReturnError(nlbsInfo, "failed to describe load balancers",
                            BaseErr("RequestError: send request failed"))
           ELSE NLBReturned(nlbsInfo, NoErr)
    /\ UNCHANGED <<nlbsInfo, nlbPages>>
    /\ UNCHANGED <<runVars, ownerVars, costVars, promptVars, monitorVars, barVars>>

NextNLB ==
    \/ NLBStart
    \/ NLBPage
    \/ NLBPageFails
    \/ NLBReturn

SpecNLB == Init /\ [][NextNLB]_vars

-----------------------------------------------------------------------------
(* The selection prompt of RevealSecret, CheckTLSSecret, ConnectToEKSCluster *)

PromptCommands == {"RevealSecret", "CheckTLSSecret", "ConnectToEKSCluster"}

\* The candidates a search can find, in listing order.
Candidates == <<"c1", "c2", "c3">>

\* A line is a sequence of one-character strings.
Digits == <<"0", "1", "2", "3", "4", "5", "6", "7", "8", "9">>

DigitVal(c) == (CHOOSE i \in 1..Len(Digits) : Digits[i] = c) - 1

\* unicode.IsSpace for the characters the model types.
IsSpace(c) == c \in {" ", "\n", "\t", "\r"}

\* What the user can type on one line, without the newline.
TypedLines ==
    {<<"1">>, <<"2">>, <<"3">>, <<" ", "2", " ">>, <<"+", "1">>,
     <<"0">>, <<"4">>, <<"-", "1">>, <<"1", "0">>, <<"x">>, <<"1", " ", "2">>, <<>>}

Chunk(text, nl) == [text |-> text, nl |-> nl]

\* The contents of os.Stdin: at most MaxLines lines, the last of which may
\* lack its newline (the stream was closed in mid-line).
InputStreams ==
    LET whole == {Chunk(t, TRUE) : t \in TypedLines}
        cut == {Chunk(t, FALSE) : t \in TypedLines \ {<<>>}}
    IN  SeqsUpTo(whole, MaxLines)
          \cup {Append(s, c) : s \in SeqsUpTo(whole, MaxLines - 1), c \in cut}

\* reader.ReadString('\n') with its error dropped: the bytes up to and
\* including the next newline; at the end of the stream, what is left
\* (nothing, once the stream is used up) together with io.EOF.
ReadString(stream) ==
    IF stream = <<>> THEN [input |-> <<>>, rest |-> <<>>]
    ELSE [input |-> IF Head(stream).nl THEN Append(Head(stream).text, "\n")
                    ELSE Head(stream).text,
          rest |-> Tail(stream)]

RECURSIVE TrimSpace(_)
TrimSpace(s) ==
    IF s = <<>> THEN s
    ELSE IF IsSpace(Head(s)) THEN TrimSpace(Tail(s))
    ELSE IF IsSpace(s[Len(s)]) THEN TrimSpace(SubSeq(s, 1, Len(s) - 1))
    ELSE s

RECURSIVE DecimalValue(_)
DecimalValue(s) ==
    IF s = <<>> THEN 0
    ELSE DecimalValue(SubSeq(s, 1, Len(s) - 1)) * 10 + DigitVal(s[Len(s)])

\* strconv.Atoi: an optional sign and then decimal digits only, at least one.
Atoi(s) ==
    LET digits == IF s # <<>> /\ Head(s) \in {"+", "-"} THEN Tail(s) ELSE s
        ok == digits # <<>> /\ \A i \in 1..Len(digits) : digits[i] \in Range(Digits)
    IN  IF ~ok THEN [err |-> TRUE, val |-> 0]
        ELSE [err |-> FALSE,
              val |-> IF Head(s) = "-" THEN 0 - DecimalValue(digits)
                      ELSE DecimalValue(digits)]

PromptReturned(processed, e) ==
    [state |-> "returned", processed |-> processed, err |-> e]

\* The command up to its switch on the number of candidates: a failed
\* listing of the secrets returns its error (a region that cannot be listed
\* only warns); no candidate is an error for the secret commands and a
\* plain return for the cluster command; one candidate is
\* processed at once; several are listed and the prompt loop is entered.
PromptStart ==
    /\ prPc = "idle"
    /\ \E cmd \in PromptCommands, n \in 0..MaxCandidates, in \in InputStreams,
          searchErr \in {NoErr, BaseErr(ErrOf("search"))} :
         /\ prCmd' = cmd
         /\ stdin' = in
         /\ IF ~searchErr.nil /\ cmd # "ConnectToEKSCluster"
              THEN /\ found' = <<>>
                   /\ prPc' = "done"
                   /\ prResult' = PromptReturned("", WrapErr("failed to list secrets in all namespaces", searchErr))
            ELSE IF n = 0
              THEN /\ found' = <<>>
                   /\ prPc' = "done"
                   /\ prResult' = PromptReturned("",
                          IF cmd = "ConnectToEKSCluster" THEN NoErr
                          ELSE BaseErr("secret not found in any namespace"))
            ELSE IF n = 1
              THEN /\ found' = SubSeq(Candidates, 1, 1)
                   /\ prPc' = "done"
                   /\ prResult' = PromptReturned(Candidates[1], NoErr)
            ELSE /\ found' = SubSeq(Candidates, 1, n)
                 /\ prPc' = "prompt"
                 /\ prResult' = prResult
    /\ prompts' = 0
    /\ UNCHANGED <<runVars, ownerVars, costVars, nlbVars, monitorVars, barVars>>

\* A turn of the for loop: print "Enter number: ", read a line, trim it,
\* parse it; inside 1..len the chosen candidate is processed and the command
\* returns, outside it the turn goes on to the invalid-input message.
PromptRead ==
    /\ prPc = "prompt"
    /\ prompts' = IF prompts < MaxPrompts THEN prompts + 1 ELSE prompts
    /\ LET r == ReadString(stdin)
           choice == Atoi(TrimSpace(r.input))
       IN  /\ stdin' = r.rest
           /\ IF choice.err \/ choice.val < 1 \/ choice.val > Len(found)
                THEN /\ prPc' = "invalid"
                     /\ prResult' = prResult
                ELSE /\ prPc' = "done"
                     /\ prResult' = PromptReturned(found[choice.val], NoErr)
    /\ UNCHANGED <<prCmd, found>>
    /\ UNCHANGED <<runVars, ownerVars, costVars, nlbVars, monitorVars, barVars>>

\* The rest of a turn on an invalid input: print the message and continue.
PromptInvalid ==
    /\ prPc = "invalid"
    /\ prPc' = "prompt"
    /\ UNCHANGED <<prCmd, found, stdin, prompts, prResult>>
    /\ UNCHANGED <<runVars, ownerVars, costVars, nlbVars, monitorVars, barVars>>

NextPrompt ==
    \/ PromptStart
    \/ PromptRead
    \/ PromptInvalid

SpecPrompt == Init /\ [][NextPrompt]_vars

\* The loop keeps taking turns while it has not returned.
SpecPromptFair == SpecPrompt /\ WF_vars(PromptRead) /\ WF_vars(PromptInvalid)

-----------------------------------------------------------------------------
(* The progress bar of the ASG monitor: createProgressBar *)

\* int(f) for the float64 f = float64(current) / float64(max) * float64(width)
\* of non-negative arguments.  With max > 0 the value is finite and, for the
\* arguments of the model, the truncated quotient current * width / max.
\* With max = 0 it is NaN (0/0, and x/0 * 0) or +Inf (x/0 * width): the
\* conversion of a value that int cannot represent succeeds with a result
\* that depends on the implementation.  The amd64 build yields the smallest
\* integer for both; the arm64 build yields 0 for NaN and the largest
\* integer for +Inf.  The model keeps 32 of the 64 bits.
FloatToInt(current, max, width) ==
    IF max # 0 THEN {(current * width) \div max}
    ELSE IF current = 0 \/ width = 0 THEN {0 - 2147483647, 0}
    ELSE {0 - 2147483647, 2147483647}

BarPanic == [panic |-> TRUE, bar |-> <<>>]

\* Variant: the filled width is clamped from below as well as from above.
createProgressBarClamped(current, max, width, converted) ==
    LET filledWidth == IF converted > width THEN width
                       ELSE IF converted < 0 THEN 0 ELSE converted
    IN  [panic |-> FALSE,
         bar |-> [i \in 1..width |-> IF i <= filledWidth THEN "filled" ELSE "empty"]]

\* createProgressBar, given what the conversion to int yielded:
\* strings.Repeat panics on a negative count.
createProgressBar(current, max, width, converted) ==
    LET filledWidth == IF converted > width THEN width ELSE converted
    IN  IF filledWidth < 0 \/ width - filledWidth < 0 THEN BarPanic
        ELSE [panic |-> FALSE,
              bar |-> [i \in 1..width |-> IF i <= filledWidth THEN "filled" ELSE "empty"]]

\* One call of createProgressBar on any arguments of the model.
BarCall ==
    /\ barPc = "idle"
    /\ \E current \in 0..MaxBarArg, max \in 0..MaxBarArg, width \in 0..MaxBarArg :
       \E converted \in FloatToInt(current, max, width) :
         /\ barArgs' = [current |-> current, max |-> max, width |-> width]
         /\ barOut' = createProgressBar(current, max, width, converted)
    /\ barPc' = "done"
    /\ UNCHANGED <<runVars, ownerVars, costVars, nlbVars, promptVars, monitorVars>>

NextBar == BarCall

SpecBar == Init /\ [][NextBar]_vars

-----------------------------------------------------------------------------
(* The ASG monitor: Monitor *)

ASG(min, desired, max) ==
    [Name |-> "asg", MinSize |-> min, MaxSize |-> max, DesiredSize |-> desired,
     CPUUtilization |-> MockCPUUtilization, NetworkUsage |-> MockNetworkUsage]

\* What fetchASGData can return: the group as it is now, with the mock
\* metrics, or an error.
FetchResults ==
    {[data |-> ASG(1, 1, 2), err |-> NoErr],
     [data |-> ASG(1, 2, 2), err |-> NoErr],
     [data |-> ASG(0, 0, 0), err |-> NoErr],
     [data |-> ZeroASG, err |-> BaseErr(ErrOf("DescribeAutoScalingGroups"))]}

\* renderASGDashboard: the three bars of the dashboard; a panic of
\* createProgressBar is the panic of the render.
renderASGDashboard(asg, converted) ==
    LET capacityBar == createProgressBar(asg.DesiredSize, asg.MaxSize, BarWidth, converted)
        cpuBar == createProgressBar(asg.CPUUtilization, 100, BarWidth,
                      CHOOSE c \in FloatToInt(asg.CPUUtilization, 100, BarWidth) : TRUE)
        networkBar == createProgressBar(asg.NetworkUsage, 100, BarWidth,
                      CHOOSE c \in FloatToInt(asg.NetworkUsage, 100, BarWidth) : TRUE)
    IN  [panic |-> capacityBar.panic,
         view |-> [drawn |-> TRUE, data |-> asg, capacityBar |-> capacityBar.bar,
                   cpuBar |-> cpuBar.bar, networkBar |-> networkBar.bar]]

\* Monitor up to app.Run: the session, the first fetch, the first render.
MonitorStart ==
    /\ monPc = "idle"
    /\ \E sessErr \in {NoErr, BaseErr(ErrOf("session"))}, r \in FetchResults :
         IF ~sessErr.nil
           THEN /\ monPc' = "done"
                /\ monResult' = MonitorReturned("returned",
                                    WrapErr("failed to create AWS session", sessErr))
                /\ UNCHANGED <<asgData, lastGood, dashboard>>
         ELSE IF ~r.err.nil
           THEN /\ monPc' = "done"
                /\ monResult' = MonitorReturned("returned",
                                    WrapErr("failed to fetch ASG data", r.err))
                /\ UNCHANGED <<asgData, lastGood, dashboard>>
         ELSE \E converted \in FloatToInt(r.data.DesiredSize, r.data.MaxSize, BarWidth) :
              LET rendered == renderASGDashboard(r.data, converted) IN
                /\ asgData' = r.data
                /\ lastGood' = r.data
                /\ IF rendered.panic
                     THEN /\ monPc' = "done"
                          /\ monResult' = MonitorReturned("panic", NoErr)
                          /\ dashboard' = dashboard
                     ELSE /\ monPc' = "loop"
                          /\ monResult' = monResult
                          /\ dashboard' = rendered.view
    /\ UNCHANGED <<events, fetched, inFlight, errorLogged>>
    /\ UNCHANGED <<runVars, ownerVars, costVars, nlbVars, promptVars, barVars>>

MonitorRunning == monPc \in {"loop", "fetched"}

\* The ticker goroutine: on a tick it hands the refresh to the event loop
\* with app.QueueUpdateDraw.
TickerFires ==
    /\ MonitorRunning
    /\ Len(events) < MaxEvents
    /\ events' = Append(events, "tick")
    /\ UNCHANGED <<monPc, asgData, lastGood, fetched, inFlight, errorLogged,
                   dashboard, monResult>>
    /\ UNCHANGED <<runVars, ownerVars, costVars, nlbVars, promptVars, barVars>>

\* The terminal hands a key to the event loop.
KeyPressed ==
    /\ MonitorRunning
    /\ Len(events) < MaxEvents
    /\ \E key \in {"r", "q", "Esc", "x"} : events' = Append(events, key)
    /\ UNCHANGED <<monPc, asgData, lastGood, fetched, inFlight, errorLogged,
                   dashboard, monResult>>
    /\ UNCHANGED <<runVars, ownerVars, costVars, nlbVars, promptVars, barVars>>

\* Variant: the next event is taken up while a refresh is being handled.
EventLoopFreeAlways == MonitorRunning

\* The event loop of app.Run takes the next event when the handler of the
\* one before has returned: the input capture and the queued update
\* functions all run on its goroutine.
EventLoopFree == monPc = "loop"

\* The event loop takes an event.  Escape and q stop the application and
\* Run returns; r and a queued tick call fetchASGData; any other key does
\* nothing.
HandleEvent ==
    /\ MonitorRunning
    /\ EventLoopFree
    /\ events # <<>>
    /\ events' = Tail(events)
    /\ IF Head(events) \in {"q", "Esc"}
         THEN /\ monPc' = "done"
              /\ monResult' = MonitorReturned("returned", NoErr)
              /\ UNCHANGED <<fetched, lastGood, inFlight>>
       ELSE IF Head(events) \in {"r", "tick"}
         THEN /\ \E r \in FetchResults :
                   /\ fetched' = r
                   /\ lastGood' = IF r.err.nil THEN r.data ELSE lastGood
              /\ inFlight' = inFlight + 1
              /\ monPc' = "fetched"
              /\ monResult' = monResult
       ELSE UNCHANGED <<monPc, monResult, fetched, lastGood, inFlight>>
    /\ UNCHANGED <<asgData, errorLogged, dashboard>>
    /\ UNCHANGED <<runVars, ownerVars, costVars, nlbVars, promptVars, barVars>>

\* The rest of a refresh: if err == nil { asgData = newData;
\* updateDashboard() } else { the error goes to the log view }.
ApplyRefresh ==
    /\ monPc = "fetched"
    /\ inFlight' = inFlight - 1
    /\ IF fetched.err.nil
         THEN \E converted \in FloatToInt(fetched.data.DesiredSize,
                                          fetched.data.MaxSize, BarWidth) :
              LET rendered == renderASGDashboard(fetched.data, converted) IN
                /\ asgData' = fetched.data
                /\ errorLogged' = FALSE
                /\ IF rendered.panic
                     THEN /\ monPc' = "done"
                          /\ monResult' = MonitorReturned("panic", NoErr)
                          /\ dashboard' = dashboard
                     ELSE /\ monPc' = "loop"
                          /\ monResult' = monResult
                          /\ dashboard' = rendered.view
         ELSE /\ errorLogged' = TRUE
              /\ monPc' = "loop"
              /\ UNCHANGED <<asgData, dashboard, monResult>>
    /\ UNCHANGED <<events, fetched, lastGood>>
    /\ UNCHANGED <<runVars, ownerVars, costVars, nlbVars, promptVars, barVars>>

NextMonitor ==
    \/ MonitorStart
    \/ TickerFires
    \/ KeyPressed
    \/ HandleEvent
    \/ ApplyRefresh

SpecMonitor == Init /\ [][NextMonitor]_vars

-----------------------------------------------------------------------------
(* Vocabulary of the properties *)

\* The fetch goroutines were launched and the barrier was passed.
PastBarrier == pc \in {"check", "index", "nodes", "pods", "collect", "output"}
                 \/ (pc = "done" /\ task["nodes"] # "idle")

\* A required list call of operation o returned an error.
HardFailed(o) == ~nodeErr.nil \/ ~podErr.nil \/ (o = "density" /\ ~rsErr.nil)

\* The kinds of operation o whose list call failed, with the words that name
\* each in the returned error and the error of its call.
FailedKinds(o) ==
    {k \in Required(o) : \/ (k = "nodes" /\ ~nodeErr.nil)
                         \/ (k = "pods" /\ ~podErr.nil)
                         \/ (k = "rs" /\ ~rsErr.nil)}
KindWords(k) == CASE k = "nodes" -> "failed to get nodes"
                  [] k = "pods" -> "failed to get pods"
                  [] k = "rs" -> "failed to get replicasets"
KindErr(k) == CASE k = "nodes" -> nodeErr
               [] k = "pods" -> podErr
               [] k = "rs" -> rsErr

NothingAggregated ==
    /\ rsOwnerCache = EmptyMap /\ nodeStats = EmptyMap /\ nodeMap = EmptyMap
    /\ podIdx = 0 /\ nodeInfos = <<>> /\ rows = <<>>

\* The run returned nil.
Succeeded == pc = "done" /\ result = Returned(NoErr)

\* The cells of output row i, in either view.
Cells(i) == IF op = "density" THEN rows[i].cells ELSE rows[i]

\* The sums of the claims, taken over the pod listing itself.
ClaimQty(c, field, r) == IF r \in DOMAIN c[field] THEN c[field][r] ELSE 0
ClaimPodSum(pod, field, r) ==
    SumSeq([j \in 1..Len(pod.containers) |-> ClaimQty(pod.containers[j], field, r)])
RunningOn(n) ==
    {i \in 1..Len(pods.items) :
        pods.items[i].phase = "Running" /\ pods.items[i].nodeName = n}
ClaimNodeSum(n, field, r) ==
    SumSeq([i \in 1..Len(pods.items) |->
              IF i \in RunningOn(n) THEN ClaimPodSum(pods.items[i], field, r) ELSE 0])

ListedNodes == {nodes.items[i].name : i \in 1..Len(nodes.items)}
RowNames == {Cells(i).name : i \in 1..Len(rows)}

TotalsFromPods(i) ==
    LET c == Cells(i) IN
    /\ c.cpuRequests = ClaimNodeSum(c.name, "requests", "cpu")
    /\ c.memoryRequests = ClaimNodeSum(c.name, "requests", "memory")
    /\ c.cpuLimits = ClaimNodeSum(c.name, "limits", "cpu")
    /\ c.memoryLimits = ClaimNodeSum(c.name, "limits", "memory")

-----------------------------------------------------------------------------
(* Properties *)

\* C1: when the list call of a required kind (nodes, pods, and ReplicaSets
\* for density) returned an error, no aggregation step runs and nothing is
\* output, and the run ends by returning an error that names a failing kind
\* and wraps that kind's error, whatever the other fetches returned.
C1_HardFailureAborts ==
    (op # "none" /\ HardFailed(op)) =>
        /\ NothingAggregated
        /\ pc \notin {"index", "nodes", "pods", "collect", "output"}
        /\ pc = "done" =>
             /\ result.state = "returned"
             /\ ~result.err.nil
             /\ \E k \in FailedKinds(op) :
                  /\ result.err.msg = KindWords(k)
                  /\ result.err.wraps = KindErr(k).wraps

C1_Witness ==
    /\ pc = "done" /\ op = "density"
    /\ nodeErr.nil /\ podErr.nil /\ ~rsErr.nil
    /\ nodes.items # <<>> /\ pods.items # <<>>
    /\ task["metrics"] = "done" /\ metricsErr.nil
    /\ result = Returned(WrapErr("failed to get replicasets", rsErr))

\* C2: when the metrics fetch fails (no metrics client, or the metrics list
\* call returned an error) and the required fetches of ShowNodeUsage succeed,
\* the run returns nil, every node's usage is "N/A" and every node's request
\* and limit totals are the sums over the pod listing.
MetricsFailed == ~metricsClient \/ ~metricsErr.nil

C2_MetricsFailureIsSoft ==
    (pc = "done" /\ op = "usage" /\ PastBarrier /\ ~HardFailed(op) /\ MetricsFailed) =>
        /\ result = Returned(NoErr)
        /\ RowNames = ListedNodes
        /\ \A i \in 1..Len(rows) :
             /\ rows[i].cpuUsage = NA
             /\ rows[i].memoryUsage = NA
             /\ TotalsFromPods(i)

C2_Witness ==
    /\ Succeeded /\ op = "usage"
    /\ metricsClient /\ ~metricsErr.nil
    /\ \E i \in 1..Len(rows) : rows[i].cpuRequests > 0 /\ rows[i].cpuUsage = NA

\* C3: every slot is written by its own fetch goroutine only, and the calling
\* goroutine reads no slot while a launched fetch goroutine is running: past
\* the barrier every launched goroutine has finished, also when a fetch
\* failed.
SlotOwner(s) == CASE s \in {"nodes", "nodeErr"} -> "nodes"
                  [] s \in {"pods", "podErr"} -> "pods"
                  [] s \in {"replicaSets", "rsErr"} -> "rs"
                  [] s \in {"nodeMetrics", "metricsErr"} -> "metrics"

C3_FetchPhaseRaceFree ==
    /\ \A s \in Slots : writers[s] \subseteq {SlotOwner(s)}
    /\ ~earlyRead
    /\ PastBarrier => \A t \in Tasks : task[t] # "running"

C3_Witness ==
    /\ pc = "check" /\ op = "density" /\ metricsClient
    /\ \A t \in Tasks : task[t] = "done"
    /\ ~podErr.nil
    /\ \A s \in Slots : writers[s] = {SlotOwner(s)}

\* C4: ShowNodeUsage outputs one record per listed node, whose request and
\* limit totals are the sums over the containers of the pods that are Running
\* and assigned to that node; other pods add nothing and never fail the run.
\* A node of 4 CPU / 8 GiB whose Running pods are two pods of 1 CPU / 1 GiB
\* shows requests 2 CPU (50%) / 2 GiB (25%).
C4_UsageTotals ==
    (pc = "done" /\ op = "usage" /\ PastBarrier /\ ~HardFailed(op)) =>
        /\ result = Returned(NoErr)
        /\ Len(rows) = Len(nodes.items)
        /\ RowNames = ListedNodes
        /\ \A i \in 1..Len(rows) :
             /\ TotalsFromPods(i)
             /\ ( /\ rows[i].cpuCapacity = 4000 /\ rows[i].memoryCapacity = 8192
                  /\ Cardinality(RunningOn(rows[i].name)) = 2
                  /\ \A k \in RunningOn(rows[i].name) :
                       /\ ClaimPodSum(pods.items[k], "requests", "cpu") = 1000
                       /\ ClaimPodSum(pods.items[k], "requests", "memory") = 1024 )
                => /\ rows[i].cpuRequests = 2000
                   /\ rows[i].cpuRequestsPct = PctNum(50)
                   /\ rows[i].memoryRequests = 2048
                   /\ rows[i].memoryRequestsPct = PctNum(25)

C4_Witness ==
    /\ Succeeded /\ op = "usage"
    /\ Len(pods.items) = 2
    /\ pods.items[1].phase = "Running" /\ pods.items[1].nodeName = "n1"
    /\ pods.items[2].phase = "Pending" /\ pods.items[2].nodeName = "n1"
    /\ \E i \in 1..Len(rows) :
         /\ rows[i].name = "n1" /\ rows[i].cpuCapacity = 4000
         /\ rows[i].cpuRequests = 1000 /\ rows[i].cpuRequestsPct = PctNum(25)

\* C5: for a node whose CPU (memory) capacity is zero, every CPU (memory)
\* percentage of its row is reported as 0, in the node-usage view and in the
\* density view.
ZeroGuarded(pct) == pct = PctNum(0)

C5_ZeroCapacityPercentIsZero ==
    Succeeded =>
        \A i \in 1..Len(rows) :
            LET c == Cells(i) IN
            /\ c.cpuCapacity = 0 =>
                 /\ ZeroGuarded(c.cpuRequestsPct)
                 /\ ZeroGuarded(c.cpuLimitsPct)
                 /\ ZeroGuarded(c.cpuUsage.pct)
            /\ c.memoryCapacity = 0 =>
                 /\ ZeroGuarded(c.memoryRequestsPct)
                 /\ ZeroGuarded(c.memoryLimitsPct)
                 /\ ZeroGuarded(c.memoryUsage.pct)

\* C6: a node with an entry in a successfully fetched metrics list is
\* reported with the usage of that entry, also when it is 0; a node is
\* reported "N/A" only when it has no entry or the metrics fetch failed.
MetricsOf(n) ==
    {k \in 1..Len(nodeMetrics.items) : nodeMetrics.items[k].name = n}

HasMetrics(n) == metricsClient /\ metricsErr.nil /\ ~nodeMetrics.nil /\ MetricsOf(n) # {}

C6_UnavailableIsNotZero ==
    Succeeded =>
        \A i \in 1..Len(rows) :
            LET c == Cells(i) IN
            IF HasMetrics(c.name)
              THEN /\ ~c.cpuUsage.na /\ ~c.memoryUsage.na
                   /\ \E k \in MetricsOf(c.name) :
                        /\ c.cpuUsage.val = nodeMetrics.items[k].cpu
                        /\ c.memoryUsage.val = nodeMetrics.items[k].mem
              ELSE c.cpuUsage.na /\ c.memoryUsage.na

\* C7: for a pod whose first owner reference is a ReplicaSet, getPodOwnerFast
\* returns (Deployment name, "Deployment") when the ReplicaSet listing holds
\* a ReplicaSet of the pod's namespace and that name which a Deployment owns,
\* and (ReplicaSet name, "ReplicaSet") otherwise; a ReplicaSet of the same
\* name in another namespace never supplies the Deployment.
DeploymentsOf(ns, rsName) ==
    {qRS[i].ownerRefs[j].name :
        i \in {x \in 1..Len(qRS) : qRS[x].namespace = ns /\ qRS[x].name = rsName},
        j \in {y \in 1..MaxOwnerRefs : \E x \in 1..Len(qRS) :
                  /\ qRS[x].namespace = ns /\ qRS[x].name = rsName
                  /\ y <= Len(qRS[x].ownerRefs)
                  /\ qRS[x].ownerRefs[y].kind = "Deployment"}}

C7_ReplicaSetResolvesThroughIndex ==
    (qOut # <<>> /\ qPod.ownerRefs # <<>> /\ Head(qPod.ownerRefs).kind = "ReplicaSet") =>
        LET rsName == Head(qPod.ownerRefs).name
            deps == DeploymentsOf(qPod.namespace, rsName)
        IN IF deps # {}
             THEN qOut[2] = "Deployment" /\ qOut[1] \in deps
             ELSE qOut = <<rsName, "ReplicaSet">>

C7_Witness ==
    /\ qOut = <<"rs1", "ReplicaSet">>
    /\ qPod.namespace = "b"
    /\ Head(qPod.ownerRefs) = Ref("ReplicaSet", "rs1")
    /\ qRS = <<RS("a", "rs1", <<Ref("Deployment", "d1")>>)>>

\* C8: getPodOwnerFast looks at the first owner reference only: a first
\* reference of a kind other than ReplicaSet is returned as (name, kind),
\* later references never change the result, and a pod without owner
\* reference resolves to (pod name, "Pod"); the result is always a
\* (name, type) pair.
FirstRefOnly(pod) == [pod EXCEPT !.ownerRefs = <<Head(pod.ownerRefs)>>]

C8_FirstOwnerReferenceDecides ==
    qOut # <<>> =>
        /\ Len(qOut) = 2
        /\ qPod.ownerRefs = <<>> => qOut = <<qPod.name, "Pod">>
        /\ qPod.ownerRefs # <<>> =>
             /\ Head(qPod.ownerRefs).kind # "ReplicaSet" =>
                  qOut = <<Head(qPod.ownerRefs).name, Head(qPod.ownerRefs).kind>>
             /\ qOut = getPodOwnerFast(FirstRefOnly(qPod), qCache)

C8_Witness ==
    /\ qOut = <<"w", "CronJob">>
    /\ qPod.ownerRefs = <<Ref("CronJob", "w"), Ref("ReplicaSet", "rs1")>>
    /\ RsKey(qPod.namespace, "rs1") \in DOMAIN qCache

\* C9: after a successful ShowPodDensity run every listed node has a record
\* whose PodCount is the sum of the PodCount of its OwnerRecords and the
\* number of pods of the listing that are Running and assigned to that node.
OwnerPodCounts(owners) == SumSeq([k \in 1..Len(owners) |-> owners[k].PodCount])

C9_NodePodCount ==
    (Succeeded /\ op = "density") =>
        /\ RowNames = ListedNodes
        /\ Len(rows) = Len(nodes.items)
        /\ \A i \in 1..Len(rows) :
             /\ rows[i].PodCount = OwnerPodCounts(rows[i].Owners)
             /\ rows[i].PodCount = Cardinality(RunningOn(rows[i].cells.name))

C9_Witness ==
    /\ Succeeded /\ op = "density"
    /\ \E i \in 1..Len(rows) :
         /\ rows[i].PodCount = 2
         /\ Len(rows[i].Owners) = 1
    /\ \E i \in 1..Len(rows) : rows[i].PodCount = 0

\* C10: each node's OwnerRecord list is ordered by non-increasing pod count,
\* and records of equal pod count appear in the order in which the first pod
\* of each owner occurs in the pod listing.
PodsOfRecord(n, rec) ==
    {k \in RunningOn(n) :
        /\ pods.items[k].namespace = rec.Namespace
        /\ getPodOwnerFast(pods.items[k], rsOwnerCache) = <<rec.Name, rec.Type>>}

FirstPod(n, rec) ==
    CHOOSE k \in PodsOfRecord(n, rec) : \A m \in PodsOfRecord(n, rec) : k <= m

C10_OwnersRankedTiesInEncounterOrder ==
    (Succeeded /\ op = "density") =>
        \A i \in 1..Len(rows) :
            LET ow == rows[i].Owners
                n == rows[i].cells.name
            IN \A x, y \in 1..Len(ow) :
                 x < y =>
                   /\ ow[x].PodCount >= ow[y].PodCount
                   /\ ow[x].PodCount = ow[y].PodCount =>
                        FirstPod(n, ow[x]) < FirstPod(n, ow[y])

-----------------------------------------------------------------------------
(* Vocabulary of the cost properties *)

\* calculateCosts has loaded the pricing table and is pricing, or has
\* returned nil.
Pricing == costPc \in {"ec2loop", "ebsloop", "lbloop", "print"}
CostSucceeded == costPc = "done" /\ costResult.err.nil
Calculating == Pricing \/ CostSucceeded

\* The number of line items of each category calculateCosts has processed.
ProcessedEC2 ==
    IF costPc = "ec2loop" THEN costIdx - 1
    ELSE IF Calculating THEN Len(costInfo.EC2Instances) ELSE 0

ProcessedEBS ==
    IF costPc = "ebsloop" THEN costIdx - 1
    ELSE IF costPc \in {"lbloop", "print"} \/ CostSucceeded
           THEN Len(costInfo.EBSVolumes) ELSE 0

ProcessedLB ==
    IF costPc = "lbloop" THEN costIdx - 1
    ELSE IF costPc = "print" \/ CostSucceeded
           THEN Len(costInfo.LoadBalancers) ELSE 0

HasEC2Price(item) == item.InstanceType \in DOMAIN pricing.EC2Pricing
HasEBSPrice(item) == item.VolumeType \in DOMAIN pricing.EBSPricing
HasLBPrice(item) == item.Type \in DOMAIN pricing.LBPricing

\* The processed line items of each category that had no price.
UnpricedEC2 == {i \in 1..ProcessedEC2 : ~HasEC2Price(costInfo.EC2Instances[i])}
UnpricedEBS == {i \in 1..ProcessedEBS : ~HasEBSPrice(costInfo.EBSVolumes[i])}
UnpricedLB == {i \in 1..ProcessedLB : ~HasLBPrice(costInfo.LoadBalancers[i])}

\* The monthly costs of the first n items of a category, those without a
\* price left out.
PricedMonthly(items, n, unpriced) ==
    SumSeq([i \in 1..n |-> IF i \in unpriced THEN 0 ELSE items[i].MonthlyCost])

-----------------------------------------------------------------------------
(* The claims on the pricing engine *)

\* C11: after each line item calculateCosts processes, and after it returns,
\* TotalCost is the sum of the MonthlyCost of the EC2, EBS and load balancer
\* line items processed so far that had a price; a processed line item
\* without a price keeps monthly cost 0.
C11_TotalIsSumOfPricedItems ==
    /\ costInfo.TotalCost =
           PricedMonthly(costInfo.EC2Instances, ProcessedEC2, UnpricedEC2)
         + PricedMonthly(costInfo.EBSVolumes, ProcessedEBS, UnpricedEBS)
         + PricedMonthly(costInfo.LoadBalancers, ProcessedLB, UnpricedLB)
    /\ \A i \in 1..ProcessedEC2 :
         ~HasEC2Price(costInfo.EC2Instances[i]) =>
             costInfo.EC2Instances[i].MonthlyCost = 0
    /\ \A i \in 1..ProcessedEBS :
         ~HasEBSPrice(costInfo.EBSVolumes[i]) => costInfo.EBSVolumes[i].MonthlyCost = 0
    /\ \A i \in 1..ProcessedLB :
         ~HasLBPrice(costInfo.LoadBalancers[i]) =>
             costInfo.LoadBalancers[i].MonthlyCost = 0

\* calculateCosts has returned with priced items in all three categories and
\* an unpriced one.
C11_Witness ==
    /\ CostSucceeded
    /\ \E i \in 1..Len(costInfo.EC2Instances) :
         HasEC2Price(costInfo.EC2Instances[i]) /\ costInfo.EC2Instances[i].MonthlyCost > 0
    /\ \E i \in 1..Len(costInfo.EC2Instances) : ~HasEC2Price(costInfo.EC2Instances[i])
    /\ \E i \in 1..Len(costInfo.EBSVolumes) :
         HasEBSPrice(costInfo.EBSVolumes[i]) /\ costInfo.EBSVolumes[i].MonthlyCost > 0
    /\ \E i \in 1..Len(costInfo.LoadBalancers) :
         HasLBPrice(costInfo.LoadBalancers[i])
           /\ costInfo.LoadBalancers[i].MonthlyCost > 0


\* The warning lines printed so far that equal `line`.
Occurrences(line) == Cardinality({w \in 1..Len(warnings) : warnings[w] = line})

\* C12: a pricing miss is recoverable.  For every processed inventory entry
\* whose type has no price there is exactly one warning line, naming that
\* type, and there are no other warning lines; the entries that have a price
\* are priced all the same; once the pricing table is loaded the operation
\* returns no error and prints the summary.
C12_PricingMissIsRecoverable ==
    /\ Len(warnings) =
         Cardinality(UnpricedEC2) + Cardinality(UnpricedEBS) + Cardinality(UnpricedLB)
    /\ \A i \in UnpricedEC2 :
         Occurrences(Warning(costInfo.EC2Instances[i].InstanceType)) = 1
    /\ \A i \in UnpricedEBS :
         Occurrences(Warning(costInfo.EBSVolumes[i].VolumeType)) = 1
    /\ \A i \in UnpricedLB :
         Occurrences(LBWarning(costInfo.LoadBalancers[i].Type)) = 1
    /\ \A i \in (1..ProcessedEC2) \ UnpricedEC2 :
         costInfo.EC2Instances[i].MonthlyCost > 0
    /\ \A i \in (1..ProcessedEBS) \ UnpricedEBS :
         costInfo.EBSVolumes[i].SizeGB > 0 => costInfo.EBSVolumes[i].MonthlyCost > 0
    /\ \A i \in (1..ProcessedLB) \ UnpricedLB :
         costInfo.LoadBalancers[i].MonthlyCost > 0
    /\ (costPc = "done" /\ ~pricing.nil) =>
         /\ costResult = CostReturned(NoErr, TRUE)
         /\ ProcessedEC2 = Len(costInfo.EC2Instances)
         /\ ProcessedEBS = Len(costInfo.EBSVolumes)
         /\ ProcessedLB = Len(costInfo.LoadBalancers)

\* A returned estimation with an unpriced entry in each category, each
\* processed before a priced entry of the same category.
C12_Witness ==
    /\ CostSucceeded /\ costResult.printed
    /\ \E i \in UnpricedEC2 : \E j \in (1..ProcessedEC2) \ UnpricedEC2 : i < j
    /\ \E i \in UnpricedEBS : \E j \in (1..ProcessedEBS) \ UnpricedEBS : i < j
    /\ \E i \in UnpricedLB : \E j \in (1..ProcessedLB) \ UnpricedLB : i < j
    /\ Len(warnings) = 3


\* The nodes of the listing in scope whose instance type is t, and the
\* LoadBalancer services of the listing in scope whose type is t.
NodesOfType(t) ==
    {k \in 1..Len(costNodes.items) :
        LET labels == costNodes.items[k].Labels
        IN  IF InstanceTypeLabel \in DOMAIN labels /\ labels[InstanceTypeLabel] # ""
              THEN labels[InstanceTypeLabel] = t
              ELSE BetaInstanceTypeLabel \in DOMAIN labels
                     /\ labels[BetaInstanceTypeLabel] = t}

ServicesOfType(t) ==
    {k \in 1..Len(services.items) :
        services.items[k].Type = "LoadBalancer" /\ LBTypeOf(services.items[k]) = t}

InstanceTypes == {"m5.large", "m7g.custom"}
LBTypes == {"classic", "network", "application"}

EC2Entries(t) ==
    {i \in 1..Len(costInfo.EC2Instances) : costInfo.EC2Instances[i].InstanceType = t}
LBEntries(t) ==
    {i \in 1..Len(costInfo.LoadBalancers) : costInfo.LoadBalancers[i].Type = t}

\* When an inventory function returns, the inventory holds one line item per
\* type observed in its listing, with the number of nodes (services) of that
\* type as its count, and no other line item.
C13_CountsObserved ==
    /\ costPc = "ec2ret" =>
         /\ \A i \in 1..Len(costInfo.EC2Instances) :
              costInfo.EC2Instances[i].InstanceType \in InstanceTypes
         /\ \A t \in InstanceTypes :
              /\ Cardinality(EC2Entries(t)) = IF NodesOfType(t) = {} THEN 0 ELSE 1
              /\ \A i \in EC2Entries(t) :
                   costInfo.EC2Instances[i].Count = Cardinality(NodesOfType(t))
    /\ costPc = "lbret" =>
         /\ \A i \in 1..Len(costInfo.LoadBalancers) :
              costInfo.LoadBalancers[i].Type \in LBTypes
         /\ \A t \in LBTypes :
              /\ Cardinality(LBEntries(t)) = IF ServicesOfType(t) = {} THEN 0 ELSE 1
              /\ \A i \in LBEntries(t) :
                   costInfo.LoadBalancers[i].Count = Cardinality(ServicesOfType(t))

\* A processed line item that had a price costs hourly price x 730 x count.
C13_MonthlyFromCount ==
    /\ \A i \in (1..ProcessedEC2) \ UnpricedEC2 :
         LET item == costInfo.EC2Instances[i]
         IN  /\ item.HourlyCost = pricing.EC2Pricing[item.InstanceType]
             /\ item.MonthlyCost = item.HourlyCost * 730 * item.Count
    /\ \A i \in (1..ProcessedLB) \ UnpricedLB :
         LET item == costInfo.LoadBalancers[i]
         IN  /\ item.HourlyCost = pricing.LBPricing[item.Type]
             /\ item.MonthlyCost = item.HourlyCost * 730 * item.Count

\* No step changes the type or the count of a line item of the inventory.
C13_CountsKept ==
    /\ \A i \in 1..Len(costInfo.EC2Instances) :
         /\ i <= Len(costInfo'.EC2Instances)
         /\ costInfo'.EC2Instances[i].InstanceType = costInfo.EC2Instances[i].InstanceType
         /\ costInfo'.EC2Instances[i].Count = costInfo.EC2Instances[i].Count
    /\ \A i \in 1..Len(costInfo.LoadBalancers) :
         /\ i <= Len(costInfo'.LoadBalancers)
         /\ costInfo'.LoadBalancers[i].Type = costInfo.LoadBalancers[i].Type
         /\ costInfo'.LoadBalancers[i].Count = costInfo.LoadBalancers[i].Count

\* C13: every priced compute-instance line item and every priced load
\* balancer line item has MonthlyCost = hourly price x 730 x count, the count
\* being the number of nodes (of LoadBalancer services) observed with that
\* type: the count is that number when the inventory function returns, it is
\* never changed afterwards, and the monthly cost is computed from it.
C13_HourlyItemsCost ==
    /\ [](C13_CountsObserved /\ C13_MonthlyFromCount)
    /\ [][C13_CountsKept]_vars

\* The scenario of the claim: m5.large at 0.096 an hour, 2 m5.large nodes and
\* 3 nodes of the unpriced m7g.custom, nothing else priced: the total is
\* 2 x 0.096 x 730 and a warning names m7g.custom.
C13_Witness ==
    /\ CostSucceeded
    /\ pricing.EC2Pricing = ("m5.large" :> 96)
    /\ \E i, j \in 1..Len(costInfo.EC2Instances) :
         /\ costInfo.EC2Instances[i].InstanceType = "m5.large"
         /\ costInfo.EC2Instances[i].Count = 2
         /\ costInfo.EC2Instances[j].InstanceType = "m7g.custom"
         /\ costInfo.EC2Instances[j].Count = 3
    /\ costInfo.EBSVolumes = <<>>
    /\ costInfo.LoadBalancers = <<>>
    /\ costInfo.TotalCost = 2 * 96 * 730
    /\ warnings = <<Warning("m7g.custom")>>


\* The volumes of the listing in scope whose storage class maps to volume
\* type t, and their total capacity in MiB.
VolumesOfType(t) ==
    {k \in 1..Len(pvs.items) :
        /\ pvs.items[k].StorageClassName # ""
        /\ Lookup(ScToVolumeType(EmptyMap, scs.items), pvs.items[k].StorageClassName) = t}

TotalCapacity(t) ==
    SumSeq([k \in 1..Len(pvs.items) |->
               IF k \in VolumesOfType(t) THEN pvs.items[k].Capacity ELSE 0])

VolumeTypes == {"gp3", "io2"}

\* C14: the block-storage line item of a volume type is billed for the total
\* capacity, in whole GB, of all persistent volumes whose storage class maps
\* to that type (two volumes of 1.5 GiB are billed for 3 GB), and a priced
\* item has MonthlyCost = price per GB-month x that total.
C14_VolumesBilledForTotalCapacity ==
    /\ costPc = "ebsret" =>
         \A i \in 1..Len(costInfo.EBSVolumes) :
            LET item == costInfo.EBSVolumes[i]
            IN  /\ item.VolumeType \in VolumeTypes
                /\ item.SizeGB = TotalCapacity(item.VolumeType) \div 1024
    /\ \A i \in (1..ProcessedEBS) \ UnpricedEBS :
         LET item == costInfo.EBSVolumes[i]
         IN  item.MonthlyCost = pricing.EBSPricing[item.VolumeType] * item.SizeGB


-----------------------------------------------------------------------------
(* The claims on the aggregation core as a whole *)

\* C15: no core operation is fatal to the process: ShowNodeUsage,
\* ShowPodDensity and EstimateClusterCost never panic, whatever the fetched
\* snapshot (pods on nodes missing from the node listing included) and
\* whatever fetches fail.
C15_NoOperationPanics ==
    /\ result.state # "panic"
    /\ costResult.state # "panic"

\* C16: the owner aggregation applies the filter of the node aggregation: a
\* pod that is not Running, has no node name, or is assigned to a node absent
\* from the node listing is skipped; the step that handles it creates no
\* record, changes no count, and the loop goes on to the next pod.
ClaimSkipped(pod) ==
    \/ pod.phase # "Running"
    \/ pod.nodeName = ""
    \/ pod.nodeName \notin ListedNodes

C16_SkipStep ==
    (/\ pc = "pods"
     /\ podIdx <= Len(pods.items)
     /\ ClaimSkipped(pods.items[podIdx]))
        => /\ nodeMap' = nodeMap
           /\ nodeStats' = nodeStats
           /\ podIdx' = podIdx + 1
           /\ pc' = pc
           /\ result' = result

C16_OwnerAggregationSkipsLikeNodeAggregation == [][C16_SkipStep]_vars


\* C17: the identity of an OwnerRecord is (node, namespace, ownerType,
\* ownerName).  In the output of a density run, within one node no two
\* records share a triple; the records of a node are exactly the triples of
\* the qualifying pods of that node, and each record counts exactly the pods
\* of its node with its triple (pods are folded together if and only if they
\* share node and triple); an owner with qualifying pods on N nodes has N
\* records, one per node.
TripleOfPod(pod) ==
    LET ow == getPodOwnerFast(pod, rsOwnerCache) IN <<pod.namespace, ow[2], ow[1]>>

TripleOfRecord(rec) == <<rec.Namespace, rec.Type, rec.Name>>

PodTriplesOn(n) == {TripleOfPod(pods.items[k]) : k \in RunningOn(n)}

RowsWithTriple(t) ==
    {i \in 1..Len(rows) :
        \E x \in 1..Len(rows[i].Owners) : TripleOfRecord(rows[i].Owners[x]) = t}

C17_OwnerRecordIdentity ==
    (Succeeded /\ op = "density") =>
        /\ \A i \in 1..Len(rows) :
             LET ow == rows[i].Owners
                 n == rows[i].cells.name
             IN  /\ \A x, y \in 1..Len(ow) :
                       TripleOfRecord(ow[x]) = TripleOfRecord(ow[y]) => x = y
                 /\ {TripleOfRecord(ow[x]) : x \in 1..Len(ow)} = PodTriplesOn(n)
                 /\ \A x \in 1..Len(ow) :
                       ow[x].PodCount =
                         Cardinality({k \in RunningOn(n) :
                                         TripleOfPod(pods.items[k]) = TripleOfRecord(ow[x])})
        /\ \A t \in UNION {PodTriplesOn(n) : n \in ListedNodes} :
             Cardinality(RowsWithTriple(t)) =
               Cardinality({n \in ListedNodes : t \in PodTriplesOn(n)})

\* A density run printed two nodes that each hold a record of the same owner.
C17_Witness ==
    /\ Succeeded /\ op = "density"
    /\ \E t \in UNION {PodTriplesOn(n) : n \in ListedNodes} :
         Cardinality(RowsWithTriple(t)) = 2


-----------------------------------------------------------------------------
(* The claims on owner resolution as a function *)

\* C18: getPodOwnerFast is a pure function of the pod and the index: a
\* second call with the same pod and index returns the pair of the first,
\* and no call changes the pod or the index, or starts a list call.
C18_CallLeavesArguments ==
    /\ qPod' = qPod
    /\ qCache' = qCache
    /\ task' = task

-----------------------------------------------------------------------------
(* The claims on ListNLBs *)

\* C20: ListNLBs never returns a partial result with an error: whenever the
\* returned error is non-nil the returned list is nil, also when the page
\* callback had accumulated load balancers of earlier pages.
C20_NoPartialResultWithError ==
    (nlbResult.state = "returned" /\ ~nlbResult.err.nil) =>
        /\ nlbResult.list.nil
        /\ nlbResult.list.items = <<>>

\* A page request failed after a page with a network load balancer was
\* handed to the callback.
C20_Witness ==
    /\ nlbResult.state = "returned"
    /\ ~nlbResult.err.nil
    /\ nlbPages >= 1
    /\ nlbsInfo.items # <<>>
    /\ nlbResult.list.nil


-----------------------------------------------------------------------------
(* The claims on the snapshot and the aggregation pass *)

\* C21: the records of a run derive from a single listing of each kind; in
\* EstimateClusterCost the region and the instance-type inventory come from
\* the same node listing: when getEC2InstancesFromNodes returns, the region
\* of the estimate is the region label of the first node of the listing the
\* inventory was counted from (and empty when that listing is empty).
C21_RegionAndInventoryFromOneListing ==
    costPc = "ec2ret" =>
        costInfo.Region =
            IF Len(costNodes.items) > 0
              THEN Lookup(costNodes.items[1].Labels, RegionLabel)
              ELSE ""


\* C22: during an aggregation pass the name and the CPU and memory capacity
\* of a node record are those of the node listing and no step changes them
\* once the record exists; the request and limit totals of a record never
\* decrease from one step to the next.
C22_CapacityFromListing ==
    \A n \in DOMAIN nodeStats :
        \E i \in 1..Len(nodes.items) :
            /\ nodes.items[i].name = n
            /\ nodeStats[n].name = n
            /\ nodeStats[n].cpuCapacity = nodes.items[i].cap.cpu
            /\ nodeStats[n].memoryCapacity = nodes.items[i].cap.mem

C22_RecordStep ==
    \A n \in DOMAIN nodeStats :
        /\ n \in DOMAIN nodeStats'
        /\ nodeStats'[n].name = nodeStats[n].name
        /\ nodeStats'[n].cpuCapacity = nodeStats[n].cpuCapacity
        /\ nodeStats'[n].memoryCapacity = nodeStats[n].memoryCapacity
        /\ nodeStats'[n].cpuRequests >= nodeStats[n].cpuRequests
        /\ nodeStats'[n].memoryRequests >= nodeStats[n].memoryRequests
        /\ nodeStats'[n].cpuLimits >= nodeStats[n].cpuLimits
        /\ nodeStats'[n].memoryLimits >= nodeStats[n].memoryLimits

C22_CapacityFrameTotalsMonotone ==
    /\ []C22_CapacityFromListing
    /\ [][C22_RecordStep]_vars

\* Two pods were added to one node record and its usage was merged in.
C22_Witness ==
    /\ pc \in {"output", "collect"}
    /\ Len(pods.items) = 2
    /\ \E n \in DOMAIN nodeStats :
         /\ RunningOn(n) = {1, 2}
         /\ nodeStats[n].cpuRequests > 0
         /\ nodeStats[n].memoryLimits > 0
         /\ nodeStats[n].cpuUsage > 0
         /\ nodeStats[n].cpuCapacity > 0


\* C23: in ShowPodDensity the owner index is complete before the first pod
\* is resolved and is not modified while pods are processed: from the
\* creation of the node records on, it has an entry under (namespace,
\* ReplicaSet name) exactly for the listed ReplicaSets that have an owner
\* reference of kind Deployment, holding the name of such a Deployment.
DeploymentRefs(rs) ==
    {rs.ownerRefs[j].name :
        j \in {y \in 1..Len(rs.ownerRefs) : rs.ownerRefs[y].kind = "Deployment"}}

OwnedReplicaSets ==
    {i \in 1..Len(replicaSets.items) : DeploymentRefs(replicaSets.items[i]) # {}}

IndexComplete ==
    /\ DOMAIN rsOwnerCache =
         {RsKey(replicaSets.items[i].namespace, replicaSets.items[i].name) :
             i \in OwnedReplicaSets}
    /\ \A i \in OwnedReplicaSets :
         LET rs == replicaSets.items[i]
         IN  rsOwnerCache[RsKey(rs.namespace, rs.name)] \in DeploymentRefs(rs)

C23_IndexBuilt ==
    (/\ op = "density"
     /\ \/ pc \in {"nodes", "pods", "collect", "output"}
        \/ (pc = "done" /\ result \in {Returned(NoErr), Panicked}))
        => IndexComplete

C23_IndexKept ==
    pc \in {"nodes", "pods", "collect", "output"} => rsOwnerCache' = rsOwnerCache

C23_IndexBuiltBeforePods ==
    /\ []C23_IndexBuilt
    /\ [][C23_IndexKept]_vars

\* A pod is about to be resolved against an index with two entries, built
\* from a listing of two ReplicaSets.
C23_Witness ==
    /\ op = "density" /\ pc = "pods"
    /\ podIdx = 1 /\ Len(pods.items) >= 1
    /\ Len(replicaSets.items) = 2
    /\ Cardinality(DOMAIN rsOwnerCache) = 2


\* C24: the kind named in the returned error depends only on which required
\* fetches failed: nodes before pods before ReplicaSets, whatever the order
\* in which the fetch tasks finished; a failure of the metrics fetch alone
\* is never returned.
FirstByPriority(kinds) ==
    IF "nodes" \in kinds THEN "nodes"
    ELSE IF "pods" \in kinds THEN "pods"
    ELSE "rs"

C24_ErrorKindByPriority ==
    (pc = "done" /\ op # "none" /\ task["nodes"] # "idle") =>
        IF FailedKinds(op) = {}
          THEN result.err.nil
          ELSE LET k == FirstByPriority(FailedKinds(op))
               IN  /\ result.state = "returned"
                   /\ ~result.err.nil
                   /\ result.err.msg = KindWords(k)
                   /\ result.err.wraps = KindErr(k).wraps

\* Every fetch of a density run failed, the metrics fetch included, and the
\* returned error names the nodes.
C24_Witness ==
    /\ pc = "done" /\ op = "density"
    /\ FailedKinds(op) = {"nodes", "pods", "rs"}
    /\ ~metricsErr.nil
    /\ result.err.msg = "failed to get nodes"
    /\ result.err.wraps = ErrOf("nodes")


\* The run under a scheduler that lets every started list call return and
\* lets the caller resume once wg.Wait() can return.
SpecFetchFair ==
    /\ Spec
    /\ WF_vars(NodesTask) /\ WF_vars(PodsTask) /\ WF_vars(ReplicaSetsTask)
    /\ WF_vars(MetricsTask) /\ WF_vars(Wait)

\* C25: the wait group counts exactly the launched fetch tasks still running
\* (the required kinds, plus the metrics task only with a metrics client),
\* each task signals completion once, succeeded or failed, no task is running
\* once the barrier is passed, and the barrier is always passed.
Running == {t \in Tasks : task[t] = "running"}

Launched == {t \in Tasks : task[t] # "idle"}

C25_Registered ==
    /\ wg = Cardinality(Running)
    /\ pc \notin {"idle", "launch", "launchMetrics"} /\ task["nodes"] # "idle" =>
         Launched = Required(op) \cup (IF metricsClient THEN {"metrics"} ELSE {})
    /\ PastBarrier => Running = {}
    /\ pc = "wait" /\ Running = {} => WaitReleased

C25_SignalsOnce ==
    /\ \A t \in Tasks : task[t] = "done" => task'[t] = "done"
    /\ \A t \in Tasks : task[t] = "running" /\ task'[t] = "done" => wg' = wg - 1

C25_BarrierReleases ==
    /\ []C25_Registered
    /\ [][C25_SignalsOnce]_vars
    /\ (pc = "wait" ~> pc = "check")

\* A usage run with a metrics client is past the barrier: three tasks were
\* launched, the nodes call failed, the others succeeded, none is registered.
C25_Witness ==
    /\ pc = "check" /\ op = "usage" /\ metricsClient
    /\ Launched = {"nodes", "pods", "metrics"}
    /\ \A t \in Launched : task[t] = "done"
    /\ ~nodeErr.nil /\ podErr.nil /\ metricsErr.nil
    /\ wg = 0


\* C26: in ShowPodDensity, after every processed pod and at the end of the
\* run, each node's CPU request, CPU limit, memory request and memory limit
\* totals are the sums of those fields over the node's owner records.
RECURSIVE OwnerMapSum(_, _, _)
OwnerMapSum(ownerMap, keys, field) ==
    IF keys = {} THEN 0
    ELSE LET k == CHOOSE x \in keys : TRUE
         IN  ownerMap[k][field] + OwnerMapSum(ownerMap, keys \ {k}, field)

RECURSIVE OwnerSeqSum(_, _)
OwnerSeqSum(owners, field) ==
    IF owners = <<>> THEN 0
    ELSE Head(owners)[field] + OwnerSeqSum(Tail(owners), field)

TotalsMatchOwners(info, cpuReq, cpuLim, memReq, memLim) ==
    /\ info.cpuRequests = cpuReq
    /\ info.cpuLimits = cpuLim
    /\ info.memoryRequests = memReq
    /\ info.memoryLimits = memLim

RECURSIVE UsagePodLoop(_, _)
UsagePodLoop(stats, items) ==
    IF items = <<>> THEN stats
    ELSE UsagePodLoop(UsageStep(stats, Head(items)), Tail(items))

\* The node records ShowNodeUsage holds after its metrics loop, for the
\* listings of the present state.
UsageRecords ==
    LET afterPods == UsagePodLoop(InitNodeStats(EmptyMap, nodes.items), pods.items)
    IN  IF MetricsUsable THEN ApplyMetrics(afterPods, nodeMetrics.items)
        ELSE afterPods

PodsOnListedNodes ==
    \A i \in 1..Len(pods.items) :
        Qualifies(pods.items[i]) => pods.items[i].nodeName \in ListedNodes

AfterMetricsLoop == pc \in {"collect", "output"} \/ Succeeded

C27_DensityRecordsAreUsageRecords ==
    (AfterMetricsLoop /\ PastBarrier /\ PodsOnListedNodes) =>
        /\ nodeStats = UsageRecords
        /\ op = "density" =>
             \A i \in 1..Len(nodeInfos) :
                 nodeInfos[i].info = UsageRecords[nodeInfos[i].info.name]

\* A density run ended on a snapshot with a Running pod and a Pending pod on
\* the listed node n1 and a usable metrics entry for n1.
C27_Witness ==
    /\ Succeeded /\ op = "density" /\ PodsOnListedNodes
    /\ Len(pods.items) = 2
    /\ pods.items[1].phase = "Running" /\ pods.items[1].nodeName = "n1"
    /\ pods.items[2].phase = "Pending" /\ pods.items[2].nodeName = "n1"
    /\ "n1" \in DOMAIN nodeStats
    /\ nodeStats["n1"].cpuRequests = 1000
    /\ nodeStats["n1"].cpuUsage > 0
    /\ Len(nodeInfos) = Len(nodes.items)


-----------------------------------------------------------------------------
(* The claims on the selection prompt *)

\* C28: the selection prompt ends for every input stream: a command that
\* prompts eventually returns, with the k-th listed candidate processed when
\* an integer k in 1..n was read; it does not prompt for ever once the input
\* stream has ended without a valid choice.
C28_PromptEnds == (prPc = "prompt") ~> (prPc = "done")


-----------------------------------------------------------------------------
(* The claims on the ASG monitor *)

\* C29: a refresh whose fetch fails leaves the held ASG data equal to the
\* result of the last successful fetch and the monitor running; a refresh
\* whose fetch succeeds replaces the held data wholly with the new result;
\* refreshes are applied one at a time, never interleaved.
C29_HeldData ==
    /\ inFlight <= 1
    /\ monPc = "loop" => asgData = lastGood
    /\ (monPc = "fetched" /\ ~fetched.err.nil) => asgData = lastGood

C29_RefreshStep ==
    monPc = "fetched" /\ monPc' # "fetched" =>
        IF fetched.err.nil
          THEN asgData' = fetched.data
          ELSE asgData' = asgData /\ monPc' = "loop" /\ dashboard' = dashboard

C29_RefreshKeepsOrReplaces == []C29_HeldData /\ [][C29_RefreshStep]_vars

\* A refresh failed after an earlier refresh had replaced the data of the
\* first fetch: the monitor runs on, holding the data of the earlier refresh,
\* with a tick waiting its turn.
C29_Witness ==
    /\ monPc = "loop" /\ errorLogged
    /\ ~fetched.err.nil
    /\ asgData = ASG(1, 2, 2) /\ dashboard.data = ASG(1, 2, 2)
    /\ events = <<"tick">>

\* C30: createProgressBar(current, max, width) returns a bar of exactly
\* width symbols of which between 0 and width are filled, for every
\* current >= 0, max >= 0, width >= 0, max = 0 included; it never fails.
FilledCount(bar) == Cardinality({i \in 1..Len(bar) : bar[i] = "filled"})

C30_BarOfWidth ==
    barPc = "done" =>
        /\ ~barOut.panic
        /\ Len(barOut.bar) = barArgs.width
        /\ FilledCount(barOut.bar) \in 0..barArgs.width

====
